---- MODULE Spec2Model ----
(***************************************************************************)
(* reactite: filter compiler (flt), operand combinator (op), and the       *)
(* cursor-pagination hook (usePaginatedQuery) over an SQL engine.          *)
(*                                                                         *)
(* SQL statements are kept structured: a WHERE clause is the sequence of   *)
(* its tokens (comparisons and the AND / OR keywords between them) in the  *)
(* order the code concatenates them, and the engine evaluates that         *)
(* sequence with SQL precedence (AND binds tighter than OR).  Parameter    *)
(* names are strings built by the same concatenations as the code.         *)
(***************************************************************************)
EXTENDS Integers, Sequences, FiniteSets, TLC

(* ------------------------------ bounds --------------------------------- *)
MaxRows == 3
MaxPageSize == 2
MaxOps == 3
MaxInflight == 1
MaxPending == 1
MaxVal == 2

(* --------------------------- JavaScript values ------------------------- *)
\* The value `undefined` (an absent cursor, a missing property of a row).
\* Keys and column values are naturals, so -1 is none of them.
undefined == 0 - 1
\* SQL NULL: what the engine binds for an undefined or missing parameter.
NULL == undefined

\* A JS object is a function from property names to values; a JS array is a
\* sequence.  Both are tagged so that Array.isArray can tell them apart.
Obj(f) == <<"obj", f>>
Arr(s) == <<"arr", s>>
isArray(v) == v[1] = "arr"
EmptyObj == [k \in {} |-> 0]

RECURSIVE Concat(_)
Concat(ss) == IF ss = <<>> THEN <<>> ELSE Head(ss) \o Concat(Tail(ss))

\* Array.prototype.flat() with the default depth 1.
flat(a) ==
    Arr(Concat([i \in 1..Len(a[2]) |->
            IF isArray(a[2][i]) THEN a[2][i][2] ELSE <<a[2][i]>>]))

\* { ...acc, ...current }: the properties of current override those of acc.
\* Spreading an array yields its indices "0", "1", ... as property names.
spreadProps(v) ==
    IF isArray(v)
    THEN [k \in {ToString(i - 1) : i \in 1..Len(v[2])} |->
            LET i == CHOOSE j \in 1..Len(v[2]) : ToString(j - 1) = k IN v[2][i]]
    ELSE v[2]
merge(acc, cur) == cur @@ acc

\* array.reduce((acc, current) => ({ ...acc, ...current }), {})
RECURSIVE reduceFrom(_, _)
reduceFrom(acc, s) ==
    IF s = <<>> THEN acc
    ELSE reduceFrom(merge(acc, spreadProps(Head(s))), Tail(s))
reduceSpread(a) == reduceFrom(EmptyObj, a[2])

(* ------------------------------ filter.ts ------------------------------ *)
\* Identifier quoting; the source quotes with a backtick, written here as the
\* equivalent double quote.
quote(column) == "\"" \o column \o "\""
unquote(name) == SubSeq(name, 2, Len(name) - 1)

\* One comparison of a WHERE clause: column reference, operator, placeholders.
Cmp(col, cmp, params) == [kind |-> "cmp", col |-> col, cmp |-> cmp, params |-> params]
AND == [kind |-> "AND"]
OR == [kind |-> "OR"]

\* The filters with one value and one placeholder $<column><key>.
ScalarFilter(cmp, column, value, namedParameterKey) ==
    [stmt |-> <<Cmp(quote(column), cmp, <<"$" \o column \o namedParameterKey>>)>>,
     values |-> Obj(("$" \o column \o namedParameterKey) :> value)]

\* Mutant of IndexedFilter: the index is missing from the placeholder names.
IndexedFilterNoIndex(cmp, column, value, namedParameterKey) ==
    LET columns == [i \in 1..Len(value) |-> "$" \o column \o namedParameterKey]
    IN [stmt |-> <<Cmp(quote(column), cmp, columns)>>,
        values |-> Arr([i \in 1..Len(value) |-> Obj(columns[i] :> value[i])])]

\* The filters over a list: the i-th placeholder is $<column><i><key>, i from 0.
IndexedFilter(cmp, column, value, namedParameterKey) ==
    LET columns == [i \in 1..Len(value) |->
                        "$" \o column \o ToString(i - 1) \o namedParameterKey]
    IN [stmt |-> <<Cmp(quote(column), cmp, columns)>>,
        values |-> Arr([i \in 1..Len(value) |-> Obj(columns[i] :> value[i])])]

ScalarFns == {"eq", "neq", "lt", "leq", "gt", "geq", "like", "not"}
IndexedFns == {"in", "notIn", "between"}
SqlOf(fn) ==
    CASE fn = "eq" -> "="
      [] fn = "neq" -> "!="
      [] fn = "lt" -> "<"
      [] fn = "leq" -> "<="
      [] fn = "gt" -> ">"
      [] fn = "geq" -> ">="
      [] fn = "like" -> "LIKE"
      [] fn = "not" -> "NOT ="
      [] fn = "in" -> "IN"
      [] fn = "notIn" -> "NOT IN"
      [] fn = "between" -> "BETWEEN"

\* flt.between checks its value list before anything else and throws unless
\* the list has exactly two elements.
betweenMessage == "The between filter takes in exactly 2 numbers as array of [min, max]"
\* Mutant of betweenThrows: the length check is missing.
betweenNeverThrows(value) == FALSE
betweenThrows(value) == Len(value) # 2

\* flt[fn](column, value) with namedParameterKey the outcome of
\* Math.random().toString().slice(2, 10); between is called with a list that
\* passed its length check.
flt(fn, column, value, namedParameterKey) ==
    IF fn \in ScalarFns
    THEN ScalarFilter(SqlOf(fn), column, value, namedParameterKey)
    ELSE IndexedFilter(SqlOf(fn), column, value, namedParameterKey)

(* ------------------------------ operand.ts ----------------------------- *)
RECURSIVE join(_, _)
join(stmts, sep) ==
    IF Len(stmts) = 0 THEN <<>>
    ELSE IF Len(stmts) = 1 THEN stmts[1]
    ELSE stmts[1] \o <<sep>> \o join(Tail(stmts), sep)

op_and(filters) ==
    [stmt |-> join([i \in 1..Len(filters) |-> filters[i].stmt], AND),
     values |-> Arr([i \in 1..Len(filters) |-> filters[i].values])]
op_or(filters) ==
    [stmt |-> join([i \in 1..Len(filters) |-> filters[i].stmt], OR),
     values |-> Arr([i \in 1..Len(filters) |-> filters[i].values])]

(* ------------------------------ SQL engine ----------------------------- *)
\* The value bound to a placeholder: an entry that is missing from the
\* parameter map, or undefined, is bound as NULL; entries that name no
\* placeholder of the statement are ignored.
Bind(params, name) == IF name \in DOMAIN params THEN params[name] ELSE NULL

\* A comparison is TRUE (not FALSE, not NULL) for the row; it is not TRUE when
\* the column of the row is NULL.
CmpTrue(row, c, params) ==
    LET x == row[unquote(c.col)]
        v(i) == Bind(params, c.params[i])
        n == Len(c.params)
    IN /\ x # NULL
       /\ CASE c.cmp = "=" -> v(1) # NULL /\ x = v(1)
         [] c.cmp = "LIKE" -> v(1) # NULL /\ x = v(1)
         [] c.cmp = "!=" -> v(1) # NULL /\ x # v(1)
         [] c.cmp = "NOT =" -> v(1) # NULL /\ x # v(1)
         [] c.cmp = "<" -> v(1) # NULL /\ x < v(1)
         [] c.cmp = "<=" -> v(1) # NULL /\ x <= v(1)
         [] c.cmp = ">" -> v(1) # NULL /\ x > v(1)
         [] c.cmp = ">=" -> v(1) # NULL /\ x >= v(1)
         [] c.cmp = "IN" -> \E i \in 1..n : v(i) # NULL /\ x = v(i)
         [] c.cmp = "NOT IN" -> \A i \in 1..n : v(i) # NULL /\ x # v(i)
         [] c.cmp = "BETWEEN" ->
                v(1) # NULL /\ v(2) # NULL /\ v(1) <= x /\ x <= v(2)

\* A WHERE clause without parentheses is a disjunction (split at each OR) of
\* conjunctions; the empty clause accepts every row.
Where(row, toks, params) ==
    LET cuts == {0, Len(toks) + 1} \cup {i \in 1..Len(toks) : toks[i].kind = "OR"}
    IN \E lo \in cuts \ {Len(toks) + 1} :
          LET hi == CHOOSE c \in cuts : c > lo /\ \A d \in cuts : d > lo => c <= d
          IN \A i \in (lo + 1)..(hi - 1) :
                toks[i].kind = "cmp" => CmpTrue(row, toks[i], params)

\* The rows of S in the order of column col; ties and the order of a
\* statement without ORDER BY follow the primary key (the rowid scan).
RECURSIVE Sorted(_, _, _, _)
Sorted(S, col, desc, pk) ==
    IF S = {} THEN <<>>
    ELSE LET first == CHOOSE r \in S : \A q \in S :
                        \/ r = q
                        \/ IF desc THEN r[col] > q[col] ELSE r[col] < q[col]
                        \/ r[col] = q[col] /\ r[pk] < q[pk]
         IN <<first>> \o Sorted(S \ {first}, col, desc, pk)

Restrict(row, cols) == [c \in cols |-> row[c]]


Prop(row, name) == IF name \in DOMAIN row THEN row[name] ELSE undefined

\* getAllAsync of a SELECT: the rows of the table that satisfy the WHERE
\* clause, ordered, cut at the bound LIMIT and projected on the columns.
\* columns is <<"*">> or the sequence of the quoted column names.
getAllAsync(stmt, params, rows, pk) ==
    LET matching == {r \in rows : Where(r, stmt.where, params)}
        ordered == IF stmt.order = <<>>
                   THEN Sorted(matching, pk, FALSE, pk)
                   ELSE Sorted(matching, unquote(stmt.order[1].column),
                               stmt.order[1].order = "DESC", pk)
        n == IF stmt.limit = "" THEN Len(ordered)
             ELSE LET l == Bind(params, stmt.limit)
                  IN IF l = NULL \/ l > Len(ordered) THEN Len(ordered) ELSE l
        cols == IF stmt.columns = <<"*">>
                THEN (DOMAIN CHOOSE r \in rows : TRUE) \ {"rowid"}
                ELSE {unquote(stmt.columns[i]) : i \in 1..Len(stmt.columns)}
    IN [i \in 1..n |-> Restrict(ordered[i], cols)]

(* ------------------------------ utils ---------------------------------- *)
\* PRAGMA table_info: one entry per column of the table, none when the table
\* does not exist.  getPKColumnName returns <<name>>, or <<>> when it throws.
getPKColumnName(tableInfo) ==
    LET found == {i \in 1..Len(tableInfo) : tableInfo[i].pk = 1}
    IN IF found = {} THEN <<>>
       ELSE <<quote(tableInfo[CHOOSE i \in found : \A j \in found : i <= j].name)>>

toUpperCase(o) == IF o = "asc" THEN "ASC" ELSE "DESC"

getPaginatedQueryOptionSQL(opts) ==
    [optionsSQL |->
        [order |-> IF opts.order = <<>> THEN <<>>
                   ELSE <<[column |-> quote(opts.order[1].column),
                           order |-> toUpperCase(opts.order[1].order)]>>,
         limit |-> IF opts.pageSize # 0 THEN "$pageSize" ELSE ""],
     optionsVars |-> ("$pageSize" :> opts.pageSize)]

\* utils/query.ts getQueryOptionSQL: a clause is emitted when !!option holds,
\* which fails for undefined and for 0; both variables are always returned.
\* The order option is not given.
getQueryOptionSQL(opts) ==
    [optionsSQL |->
        [order |-> <<>>,
         limit |-> IF opts.limit # undefined /\ opts.limit # 0 THEN "$limit" ELSE "",
         offset |-> IF opts.offset # undefined /\ opts.offset # 0
                    THEN "$offset" ELSE ""],
     optionsVars |-> ("$limit" :> opts.limit) @@ ("$offset" :> opts.offset)]

\* useQuery.ts, lines 92-110: <<>> is options undefined.
useQueryOptions(o) ==
    IF o = <<>>
    THEN [optionsSQL |-> [order |-> <<>>, limit |-> "", offset |-> ""],
          optionsVars |-> EmptyObj]
    ELSE getQueryOptionSQL(o[1])

\* Array.isArray(filters.values) ? filters.values.flat().reduce(spread, {})
\*                               : filters.values
flatValues(f) ==
    IF isArray(f.values) THEN reduceSpread(flat(f.values)) ELSE f.values[2]

\* The rows the engine returns for the statement of useQuery with filters f
\* and options o over the rows tbl: OFFSET skips rows before LIMIT cuts, and
\* an OFFSET clause without a LIMIT clause is a syntax error.
useQuerySelect(tbl, f, o) ==
    LET sql == useQueryOptions(o).optionsSQL
        params == merge(flatValues(f), useQueryOptions(o).optionsVars)
        all == getAllAsync([columns |-> <<"*">>, where |-> f.stmt,
                            order |-> sql.order, limit |-> ""], params, tbl, "id")
        skip == IF sql.offset = "" THEN 0 ELSE Bind(params, sql.offset)
        take == IF sql.limit = "" THEN Len(all) ELSE Bind(params, sql.limit)
        last == IF skip + take > Len(all) THEN Len(all) ELSE skip + take
    IN IF sql.offset # "" /\ sql.limit = "" THEN [ok |-> FALSE, data |-> <<>>]
       ELSE [ok |-> TRUE, data |-> SubSeq(all, skip + 1, last)]


(* ------------------------ usePaginatedQuery.ts ------------------------- *)
VARIABLES
    tableInfo,       \* engine: PRAGMA table_info of the table (<<>>: no table)
    rows,            \* engine: the rows of the table
    options,         \* hook argument: pageSize, cursor, order
    filters,         \* hook argument: <<>> (undefined) or <<predicate>>
    select,          \* hook argument: <<>> (undefined) or <<column names>>
    state,           \* React state of the hook
    previousCursor,  \* React state of the hook
    calls,           \* invocations of get() that await an engine result
    mounted,         \* the mount effect has run
    ops,             \* number of fetchNextPage / refetchPage calls so far
    lastOp,          \* the latest hook function called
    engineCalls,     \* number of statements handed to the engine so far
    shown,           \* which invocation of get() produced state.data
    latestNext,      \* <<>>, or <<cursor passed by the latest fetchNextPage>>
    previousPageNo,  \* page number that previousCursor stands for
    fetched,         \* the pages got by the first fetch and each fetchNextPage (keys)
    inflight,        \* caller: how many fetches it lets be in flight together
    args,            \* compiler: the results of the flt calls not yet combined
    pred,            \* compiler: <<>> or <<the predicate a caller passes>>
    handed,          \* compiler: <<>> or <<parameter map handed to the engine>>
    lastFlt,         \* compiler: <<>> or <<the latest flt call and its outcome>>
    operation,       \* mutation hook argument: which mutate function it returns
    mstate,          \* React state of the mutation hook
    mcalls,          \* invocations of mutate that await the engine
    done,            \* the invocations of mutate that have settled, in order
    thrower,         \* mutation hook argument: the success callback that throws
    pending,         \* caller: how many invocations of mutate it lets overlap
    db,              \* engine: PRAGMA table_info of every table name (<<>>: no table)
    declared,        \* useCreateTables argument: the tables, in key order
    cstate,          \* React state of useCreateTables
    attempt,         \* calls of createTable that await their transaction
    attempts,        \* the calls of createTable that have settled, in order
    lookup           \* <<>> or <<the latest getPKColumnName call and its outcome>>

config == <<tableInfo, rows, options, filters, select, inflight>>
hookVars == <<state, previousCursor, calls, mounted, ops, lastOp, engineCalls,
              shown, latestNext, previousPageNo, fetched>>
compileVars == <<args, pred, handed, lastFlt>>
mutVars == <<operation, thrower, pending, mstate, mcalls, done>>
createVars == <<db, declared, cstate, attempt, attempts, lookup>>
\* What a mutation leaves alone: everything but the table and the engine.
notMutated == <<tableInfo, options, filters, select, state, previousCursor, calls,
                mounted, ops, lastOp, shown, latestNext, previousPageNo, fetched,
                inflight,
                compileVars, createVars, thrower, pending>>
vars == <<config, hookVars, compileVars, mutVars, createVars>>

emptyData ==
    [hasNextPage |-> FALSE, items |-> 0, nextCursor |-> undefined,
     page |-> <<>>, isFirstPage |-> FALSE, isLastPage |-> FALSE]

initialState ==
    [data |-> emptyData, isLastPage |-> FALSE, error |-> "null",
     querying |-> FALSE, status |-> "null", success |-> FALSE,
     hasNextPage |-> FALSE, isFirstPage |-> FALSE, mutating |-> <<>>]

noTableMessage == "no primary key column or the table does not exists"

columnsOf(sel) ==
    IF sel = <<>> THEN <<"*">> ELSE [i \in 1..Len(sel[1]) |-> quote(sel[1][i])]

paginatedVars(cursor) == "$cursor" :> cursor

\* Mutant of mainStmt: the cursor row itself is admitted (>= for >).
mainStmtInclusive(cursor, pkName) ==
    LET cursorCmp == Cmp(pkName, ">=", <<"$cursor">>)
        o == getPaginatedQueryOptionSQL(options).optionsSQL
    IN [columns |-> columnsOf(select),
        where |-> IF filters = <<>>
                  THEN (IF cursor = undefined THEN <<>> ELSE <<cursorCmp>>)
                  ELSE (IF cursor = undefined THEN filters[1].stmt
                        ELSE <<cursorCmp, AND>> \o filters[1].stmt),
        order |-> o.order,
        limit |-> o.limit]

\* The statement of the page and the parameters bound to it.
mainStmt(cursor, pkName) ==
    LET cursorCmp == Cmp(pkName, ">", <<"$cursor">>)
        o == getPaginatedQueryOptionSQL(options).optionsSQL
    IN [columns |-> columnsOf(select),
        where |-> IF filters = <<>>
                  THEN (IF cursor = undefined THEN <<>> ELSE <<cursorCmp>>)
                  ELSE (IF cursor = undefined THEN filters[1].stmt
                        ELSE <<cursorCmp, AND>> \o filters[1].stmt),
        order |-> o.order,
        limit |-> o.limit]

mainParams(opts, flts, cursor) ==
    LET optionsVars == getPaginatedQueryOptionSQL(opts).optionsVars
    IN IF flts = <<>>
       THEN merge(optionsVars, paginatedVars(cursor))
       ELSE merge(merge(flatValues(flts[1]), optionsVars), paginatedVars(cursor))

\* The lookahead statement and its parameters; lastItem is <<>> or <<row>>.
lookaheadCursor(lastItem) ==
    IF lastItem = <<>> THEN undefined ELSE Prop(lastItem[1], "id")

lookaheadStmt(pkName) ==
    LET cursorCmp == Cmp(pkName, ">", <<"$cursor">>)
    IN [columns |-> <<pkName>>,
        where |-> IF filters = <<>> THEN <<cursorCmp>>
                  ELSE <<cursorCmp, AND>> \o filters[1].stmt,
        order |-> <<>>,
        limit |-> ""]

lookaheadParams(lastItem) ==
    IF filters = <<>>
    THEN paginatedVars(lookaheadCursor(lastItem))
    ELSE merge(flatValues(filters[1]), paginatedVars(lookaheadCursor(lastItem)))

at_last(data) == IF data = <<>> THEN <<>> ELSE <<data[Len(data)]>>

paginatedResult(data, nextItems, pkName, isFirstPage) ==
    LET lastItem == at_last(data)
        hasNextPage == Len(nextItems) # 0
        nextCursor == IF ~hasNextPage THEN undefined
                      ELSE Prop(lastItem[1], unquote(pkName))
    IN [hasNextPage |-> hasNextPage, items |-> Len(data),
        nextCursor |-> nextCursor, page |-> data,
        isFirstPage |-> isFirstPage,
        isLastPage |-> (nextCursor = undefined)]

errorState(s, msg) ==
    [s EXCEPT !.error = msg, !.status = "error", !.success = FALSE,
              !.mutating = <<FALSE>>, !.data = emptyData]

successState(s, result) ==
    [s EXCEPT !.status = IF result.hasNextPage THEN "success" ELSE "exhausted",
              !.success = TRUE, !.querying = FALSE, !.data = result,
              !.error = "null"]

\* What the hook displayed when a get() was started.
Before ==
    [op |-> shown.op, cursor |-> shown.cursor, data |-> state.data,
     idle |-> calls = <<>>]
NoBefore ==
    [op |-> "none", cursor |-> undefined, data |-> emptyData, idle |-> TRUE]

\* get(isFirstPage, status, cursor) up to its first await: the status is
\* stored with mutating: true (lines 98-102), the primary key is resolved (a
\* throw ends in the catch block) and the page statement is handed to the engine.
get(isFirstPage, status, cursor, op, pageNo) ==
    LET pk == getPKColumnName(tableInfo)
        me == [op |-> op, cursor |-> cursor, pageNo |-> pageNo, keys |-> <<>>,
               before |-> Before]
    IN IF pk = <<>>
       THEN /\ state' = errorState([state EXCEPT !.status = status, !.mutating = <<TRUE>>],
                                   noTableMessage)
            /\ calls' = calls
            /\ shown' = me
            /\ engineCalls' = engineCalls + 1
       ELSE /\ state' = [state EXCEPT !.status = status, !.mutating = <<TRUE>>]
            /\ calls' = Append(calls,
                    [isFirstPage |-> isFirstPage, cursor |-> cursor,
                     pkName |-> pk[1], pc |-> "main", data |-> <<>>, me |-> me])
            /\ shown' = shown
            /\ engineCalls' = engineCalls + 2

Remove(s, i) == [j \in 1..(Len(s) - 1) |-> IF j < i THEN s[j] ELSE s[j + 1]]

\* React.useEffect(() => { get(true, "querying-first-page", options.cursor) }, [])
Mount ==
    /\ ~mounted
    /\ mounted' = TRUE
    /\ lastOp' = "mount"
    /\ get(TRUE, "querying-first-page", options.cursor, "mount", 1)
    /\ UNCHANGED <<createVars, mutVars, config, compileVars, previousCursor, ops, latestNext,
                   previousPageNo, fetched>>

\* Mutant of fetchNextPage: the hasNextPage test is missing.
fetchNextPageUnguarded ==
    /\ mounted
    /\ ops < MaxOps
    /\ Len(calls) < inflight
    /\ ops' = ops + 1
    /\ lastOp' = "fetchNextPage"
    /\ previousCursor' = state.data.nextCursor
    /\ latestNext' = <<state.data.nextCursor>>
    /\ previousPageNo' = shown.pageNo + 1
    /\ get(FALSE, "querying-next-page", state.data.nextCursor,
           "fetchNextPage", shown.pageNo + 1)
    /\ UNCHANGED <<createVars, mutVars, config, compileVars, mounted, fetched>>

\* const fetchNextPage = async () => { if (state.data.hasNextPage) { ... } }
fetchNextPage ==
    /\ mounted
    /\ ops < MaxOps
    /\ Len(calls) < inflight
    /\ ops' = ops + 1
    /\ lastOp' = "fetchNextPage"
    /\ IF state.data.hasNextPage
       THEN /\ previousCursor' = state.data.nextCursor
            /\ latestNext' = <<state.data.nextCursor>>
            /\ previousPageNo' = shown.pageNo + 1
            /\ get(FALSE, "querying-next-page", state.data.nextCursor,
                   "fetchNextPage", shown.pageNo + 1)
       ELSE UNCHANGED <<state, previousCursor, calls, shown, engineCalls,
                        latestNext, previousPageNo>>
    /\ UNCHANGED <<createVars, mutVars, config, compileVars, mounted, fetched>>

refetchPage ==
    /\ mounted
    /\ ops < MaxOps
    /\ Len(calls) < inflight
    /\ ops' = ops + 1
    /\ lastOp' = "refetchPage"
    /\ get(state.data.nextCursor # undefined /\ state.data.nextCursor # 0,
           "refetching", previousCursor, "refetchPage", previousPageNo)
    /\ UNCHANGED <<createVars, mutVars, config, compileVars, mounted, previousCursor, latestNext,
                   previousPageNo, fetched>>

\* The engine answers the page statement; get() hands it the lookahead.
MainDone(i) ==
    /\ calls[i].pc = "main"
    /\ LET stmt == mainStmt(calls[i].cursor, calls[i].pkName)
           params == mainParams(options, filters, calls[i].cursor)
           pk == unquote(calls[i].pkName)
           whole == getAllAsync([stmt EXCEPT !.columns = <<"*">>], params, rows, pk)
       IN calls' = [calls EXCEPT ![i].pc = "lookahead",
                        ![i].data = getAllAsync(stmt, params, rows, pk),
                        ![i].me.keys = [k \in 1..Len(whole) |-> whole[k][pk]]]
    /\ engineCalls' = engineCalls + 1
    /\ UNCHANGED <<createVars, mutVars, config, compileVars, state, previousCursor, mounted, ops,
                   lastOp, shown, latestNext, previousPageNo, fetched>>

\* The engine answers the lookahead; get() builds the result and stores it.
LookaheadDone(i) ==
    /\ calls[i].pc = "lookahead"
    /\ LET c == calls[i]
           nextItems == getAllAsync(lookaheadStmt(c.pkName),
                                    lookaheadParams(at_last(c.data)), rows,
                                    unquote(c.pkName))
       IN state' = successState(state,
                        paginatedResult(c.data, nextItems, c.pkName, c.isFirstPage))
    /\ shown' = calls[i].me
    /\ fetched' = IF calls[i].me.op = "refetchPage" THEN fetched
                  ELSE Append(fetched, calls[i].me.keys)
    /\ calls' = Remove(calls, i)
    /\ UNCHANGED <<createVars, mutVars, config, compileVars, previousCursor, mounted, ops, lastOp,
                   engineCalls, latestNext, previousPageNo>>

(* --------------------------- configurations ---------------------------- *)
PkNames == {"id", "uid"}
TableInfos ==
    {<<>>} \cup {<<[name |-> n, pk |-> 1], [name |-> "a", pk |-> 0]>> : n \in PkNames}

\* Tables of n rows with the keys 1..n and any values in column a.
TablesOf(info) ==
    IF info = <<>> THEN {{}}
    ELSE UNION {{ {(info[1].name :> k) @@ ("a" :> f[k]) : k \in 1..n} :
                    f \in [1..n -> 1..MaxVal]} : n \in 0..MaxRows}

\* The predicates a caller passes, each with the values of column a that the
\* caller means it to accept (sem).
Meaning(f, sem) == [stmt |-> f.stmt, values |-> f.values, sem |-> sem]
Predicates ==
    {<<>>,
     <<Meaning(flt("eq", "a", 1, "11"), {1})>>,
     <<Meaning(op_or(<<flt("eq", "a", 1, "11"), flt("eq", "a", 2, "22")>>), {1, 2})>>,
     <<Meaning(op_and(<<flt("in", "a", <<1, 2>>, "33"), flt("neq", "a", 2, "44")>>), {1})>>}

SelectsOf(info) ==
    IF info = <<>> THEN {<<>>}
    ELSE {<<>>, <<<<info[1].name>>>>, <<<<"a">>>>}

OrdersOf(info) ==
    IF info = <<>> THEN {<<>>}
    ELSE {<<>>, <<[order |-> "desc", column |-> info[1].name]>>}

\* useMutation / useMutationByPK / useMutationByPKs: React.useState.
initialMutationState ==
    [mutating |-> FALSE, data |-> <<"null">>, error |-> "null", status |-> "null",
     success |-> FALSE]

MutInit ==
    /\ operation = "none"
    /\ thrower = "none"
    /\ pending = MaxPending
    /\ mstate = initialMutationState
    /\ mcalls = <<>>
    /\ done = <<>>

\* useCreateTables.ts, lines 116-123.
initialCreateState ==
    [creating |-> FALSE, success |-> FALSE, error |-> "null", sql |-> <<>>,
     tables |-> <<"null">>, status |-> "null"]

CreateInit ==
    /\ db = <<>>
    /\ declared = <<>>
    /\ cstate = initialCreateState
    /\ attempt = <<>>
    /\ attempts = <<>>
    /\ lookup = <<>>

HookInit ==
    /\ state = initialState
    /\ previousCursor = undefined
    /\ calls = <<>>
    /\ mounted = FALSE
    /\ ops = 0
    /\ lastOp = "none"
    /\ engineCalls = 0
    /\ shown = [op |-> "none", cursor |-> undefined, pageNo |-> 0, keys |-> <<>>,
                before |-> NoBefore]
    /\ latestNext = <<>>
    /\ previousPageNo = 1
    /\ fetched = <<>>

CompileInit ==
    /\ args = <<>>
    /\ pred = <<>>
    /\ handed = <<>>
    /\ lastFlt = <<>>

Init ==
    /\ tableInfo \in TableInfos
    /\ rows \in TablesOf(tableInfo)
    /\ options \in [pageSize : 1..MaxPageSize, cursor : {undefined, 1},
                    order : OrdersOf(tableInfo)]
    /\ filters \in Predicates
    /\ select \in SelectsOf(tableInfo)
    /\ inflight = MaxInflight
    /\ HookInit
    /\ CompileInit
    /\ MutInit
    /\ CreateInit

Next ==
    \/ Mount
    \/ fetchNextPage
    \/ refetchPage
    \/ \E i \in 1..Len(calls) : MainDone(i)
    \/ \E i \in 1..Len(calls) : LookaheadDone(i)

Spec == Init /\ [][Next]_vars

\* The order options a caller may give: none, or ascending or descending on
\* the primary key or on column a.
Orders ==
    {<<>>} \cup {<<[order |-> o, column |-> c]>> : o \in {"asc", "desc"}, c \in {"id", "a"}}

\* Paging forward only, under every order option: the first fetch, then
\* fetchNextPage again and again, each call after the fetch before it has
\* settled.
InitOrder ==
    /\ tableInfo = <<[name |-> "id", pk |-> 1], [name |-> "a", pk |-> 0]>>
    /\ rows \in TablesOf(tableInfo)
    /\ options \in [pageSize : 1..MaxPageSize, cursor : {undefined}, order : Orders]
    /\ filters \in Predicates
    /\ select = <<>>
    /\ inflight = MaxInflight
    /\ HookInit
    /\ CompileInit
    /\ MutInit
    /\ CreateInit

NextOrder ==
    \/ Mount
    \/ fetchNextPage
    \/ \E i \in 1..Len(calls) : MainDone(i)
    \/ \E i \in 1..Len(calls) : LookaheadDone(i)

SpecOrder == InitOrder /\ [][NextOrder]_vars

\* The caller does not await the fetches: fetchNextPage and refetchPage are
\* called while up to MaxFetches earlier fetches are in flight.
MaxFetches == 2

InitFetch ==
    /\ tableInfo = <<[name |-> "id", pk |-> 1], [name |-> "a", pk |-> 0]>>
    /\ rows \in TablesOf(tableInfo)
    /\ options \in [pageSize : 1..MaxPageSize, cursor : {undefined}, order : {<<>>}]
    /\ filters = <<>>
    /\ select = <<>>
    /\ inflight = MaxFetches
    /\ HookInit
    /\ CompileInit
    /\ MutInit
    /\ CreateInit

SpecFetch == InitFetch /\ [][Next]_vars

(* ------------- compiling a predicate and binding its values ------------ *)
MaxArgs == 2
MaxList == 2
MaxDepth == 3

\* Outcomes of Math.random().toString().slice(2, 10): a string of up to 8
\* digits (0.5 gives "5"); two short ones keep the names readable.
RandomKeys == {"2", "12"}
Columns == {"a"}

\* The value the caller passes to the j-th flt call: every call and every
\* list position has its own value, so that a binding shows whose it is.
callValue(fn, j, n) ==
    IF fn \in ScalarFns THEN 10 * j ELSE [i \in 1..n |-> 10 * j + i]

\* utils/update.ts updateValues: entries is the sequence of <<key, value>>.
updateValues(entries) ==
    [values |-> reduceSpread(flat(Arr([i \in 1..Len(entries) |->
                    Obj(("$" \o entries[i][1]) :> entries[i][2])]))),
     stmt |-> [i \in 1..Len(entries) |->
                    [col |-> quote(entries[i][1]), param |-> "$" \o entries[i][1]]]]

\* updateTransaction / deleteTransaction: filters.values.reduce(spread, {})
\* when filters.values is an array, without flat().
filterValues(f) ==
    IF isArray(f.values) THEN reduceSpread(f.values) ELSE f.values[2]

\* The update object of the modelled update call.
updateEntries == <<<<"a", 7>>>>

FltCall(fn, column, n, key) ==
    /\ pred = <<>>
    /\ Len(args) < MaxArgs
    /\ fn \in ScalarFns => n = 1
    /\ LET value == callValue(fn, Len(args) + 1, n)
       IN IF fn = "between" /\ betweenThrows(value)
          THEN /\ lastFlt' = <<[fn |-> fn, column |-> column, list |-> value,
                                error |-> betweenMessage]>>
               /\ args' = args
          ELSE /\ lastFlt' = <<[fn |-> fn, column |-> column,
                                list |-> IF fn \in ScalarFns THEN <<value>> ELSE value,
                                error |-> "null"]>>
               /\ args' = Append(args, [fn |-> fn, value |-> value,
                                        f |-> flt(fn, column, value, key)])
    /\ UNCHANGED <<createVars, mutVars, config, hookVars, pred, handed>>

\* A single filter passed as the predicate.
AsPredicate ==
    /\ pred = <<>>
    /\ Len(args) = 1
    /\ pred' = <<[f |-> args[1].f, leaves |-> args, depth |-> 0,
                  top |-> "none", kids |-> <<>>]>>
    /\ args' = <<>>
    /\ UNCHANGED <<createVars, mutVars, config, hookVars, handed, lastFlt>>

\* op.and(...args) / op.or(...args) over the filters built so far.
OpCall(kind) ==
    /\ pred = <<>>
    /\ Len(args) >= 1
    /\ LET fs == [i \in 1..Len(args) |-> args[i].f]
       IN pred' = <<[f |-> IF kind = "and" THEN op_and(fs) ELSE op_or(fs),
                     leaves |-> args, depth |-> 1, top |-> kind, kids |-> fs]>>
    /\ args' = <<>>
    /\ UNCHANGED <<createVars, mutVars, config, hookVars, handed, lastFlt>>

\* op.and(p) / op.or(p) around a predicate that is itself an operand.
OpNest(kind) ==
    /\ pred # <<>>
    /\ handed = <<>>
    /\ pred[1].depth >= 1
    /\ pred[1].depth < MaxDepth
    /\ pred' = <<[pred[1] EXCEPT
                    !.f = IF kind = "and" THEN op_and(<<pred[1].f>>)
                          ELSE op_or(<<pred[1].f>>),
                    !.depth = pred[1].depth + 1,
                    !.top = kind,
                    !.kids = <<pred[1].f>>]>>
    /\ UNCHANGED <<createVars, mutVars, config, hookVars, args, handed, lastFlt>>

\* op.and(p, flt.eq(column, v)) / op.or(p, flt.eq(column, v)) with p the result
\* of op.and / op.or over filters.
OpOver(kind, column, key) ==
    /\ pred # <<>>
    /\ handed = <<>>
    /\ pred[1].depth = 1
    /\ LET value == callValue("eq", Len(pred[1].leaves) + 1, 1)
           leaf == [fn |-> "eq", value |-> value, f |-> flt("eq", column, value, key)]
           fs == <<pred[1].f, leaf.f>>
       IN /\ pred' = <<[f |-> IF kind = "and" THEN op_and(fs) ELSE op_or(fs),
                        leaves |-> Append(pred[1].leaves, leaf),
                        depth |-> 2, top |-> kind, kids |-> fs]>>
          /\ lastFlt' = <<[fn |-> "eq", column |-> column, list |-> <<value>>,
                           error |-> "null"]>>
    /\ UNCHANGED <<createVars, mutVars, config, hookVars, args, handed>>

\* The options of useQuery: none, or a limit and an offset that are each
\* absent or an integer from 0.
MaxLimit == 2
QueryOptions ==
    {<<>>} \cup {<<[limit |-> l, offset |-> k]>> :
                    l \in {undefined} \cup 0..MaxLimit, k \in {undefined, 0, 1}}

\* useQuery.get with filters and the options o.
useQuery_get(o) ==
    /\ pred # <<>>
    /\ handed = <<>>
    /\ handed' = <<[by |-> "useQuery", options |-> o,
                    sql |-> useQueryOptions(o).optionsSQL,
                    params |-> merge(flatValues(pred[1].f),
                                     useQueryOptions(o).optionsVars)]>>
    /\ UNCHANGED <<createVars, mutVars, config, hookVars, args, pred, lastFlt>>

\* usePaginatedQuery.get with filters: the parameters of the page statement.
usePaginatedQuery_get ==
    /\ pred # <<>>
    /\ handed = <<>>
    /\ handed' = <<[by |-> "usePaginatedQuery",
                    params |-> mainParams(options, <<pred[1].f>>, options.cursor)]>>
    /\ UNCHANGED <<createVars, mutVars, config, hookVars, args, pred, lastFlt>>

updateTransaction ==
    /\ pred # <<>>
    /\ handed = <<>>
    /\ handed' = <<[by |-> "updateTransaction",
                    params |-> merge(filterValues(pred[1].f),
                                     updateValues(updateEntries).values)]>>
    /\ UNCHANGED <<createVars, mutVars, config, hookVars, args, pred, lastFlt>>

deleteTransaction ==
    /\ pred # <<>>
    /\ handed = <<>>
    /\ handed' = <<[by |-> "deleteTransaction", params |-> filterValues(pred[1].f)]>>
    /\ UNCHANGED <<createVars, mutVars, config, hookVars, args, pred, lastFlt>>

CompileConfig ==
    /\ tableInfo = <<[name |-> "id", pk |-> 1], [name |-> "a", pk |-> 0]>>
    /\ rows = {}
    /\ options = [pageSize |-> 1, cursor |-> undefined, order |-> <<>>]
    /\ filters = <<>>
    /\ select = <<>>
    /\ inflight = MaxInflight

InitCompile == CompileConfig /\ HookInit /\ CompileInit /\ MutInit /\ CreateInit

NextCompile ==
    \/ \E fn \in ScalarFns \cup IndexedFns, column \in Columns,
          n \in 0..MaxList, key \in RandomKeys : FltCall(fn, column, n, key)
    \/ AsPredicate
    \/ \E kind \in {"and", "or"} : OpCall(kind)
    \/ \E kind \in {"and", "or"} : OpNest(kind)
    \/ \E kind \in {"and", "or"}, column \in Columns, key \in RandomKeys :
          OpOver(kind, column, key)
    \/ \E o \in QueryOptions : useQuery_get(o)
    \/ usePaginatedQuery_get
    \/ updateTransaction
    \/ deleteTransaction

SpecCompile == InitCompile /\ [][NextCompile]_vars


(* ------------------ mutations: the engine's statements ----------------- *)
MaxStored == 2
MaxBatch == 2
MaxMutations == 2

\* A stored row has its rowid and the columns id (the primary key) and a.  The
\* primary key column is the rowid itself when it is declared INTEGER PRIMARY
\* KEY (what field.type("INTEGER").pk() gives); the column "id INT PRIMARY KEY"
\* that getColumnsAndOptions adds to a table declared without a primary key is
\* an ordinary unique column beside the rowid.
rowidAlias(info) == \E i \in 1..Len(info) : info[i].pk = 1 /\ info[i].type = "INTEGER"

null == <<"null">>
uniqueMessage == "UNIQUE constraint failed"

Max(S) == IF S = {} THEN 0 ELSE CHOOSE x \in S : \A y \in S : y <= x

\* The value an entry list (Object.entries) gives to a key, NULL when absent.
EntryOf(entries, key) ==
    LET at == {i \in 1..Len(entries) : entries[i][1] = key}
    IN IF at = {} THEN NULL ELSE entries[Max(at)][2]

\* runAsync of INSERT INTO t(columns) VALUES(?, ...): the i-th value is bound
\* to the i-th column; the statement fails on a primary key already stored.
\* The column was declared with field.unique().
uniqueColumn(info, col) == \E i \in 1..Len(info) : info[i].name = col /\ info[i].unique

runInsert(tbl, info, entries) ==
    LET id == EntryOf(entries, "id")
        rowid == IF rowidAlias(info) /\ id # NULL THEN id
                 ELSE Max({r.rowid : r \in tbl}) + 1
        row == [rowid |-> rowid,
                id |-> IF id # NULL THEN id
                       ELSE IF rowidAlias(info) THEN rowid ELSE NULL,
                a |-> EntryOf(entries, "a")]
    IN IF \/ id # NULL /\ \E r \in tbl : r.id = id
          \/ uniqueColumn(info, "a") /\ \E r \in tbl : r.a = row.a
       THEN [ok |-> FALSE, rows |-> tbl, lastInsertRowId |-> 0, changes |-> 0]
       ELSE [ok |-> TRUE, rows |-> tbl \cup {row}, lastInsertRowId |-> rowid,
             changes |-> 1]

\* getFirstAsync of SELECT * FROM t WHERE <pk> = <value>: the first row in
\* rowid order, null when there is none.
getFirstAsync(tbl, pkName, value) ==
    LET found == {r \in tbl : r[unquote(pkName)] # NULL /\ r[unquote(pkName)] = value}
    IN IF value = NULL \/ found = {} THEN null
       ELSE LET r == CHOOSE q \in found : \A o \in found : q.rowid <= o.rowid
            IN Obj(Restrict(r, DOMAIN r \ {"rowid"}))

\* runAsync of UPDATE t SET <col = $col, ...> WHERE <where>: every row that
\* satisfies the WHERE clause gets each SET column the value bound to its
\* placeholder (the rowid follows a primary key that is the rowid); the
\* statement fails when two rows would share a primary key.
runUpdate(tbl, info, set, where, params) ==
    LET hit(r) == Where(r, where, params)
        setOf(col) == {i \in 1..Len(set) : unquote(set[i].col) = col}
        new(r, col) == IF setOf(col) = {} THEN r[col]
                       ELSE Bind(params, set[Max(setOf(col))].param)
        upd(r) == [rowid |-> IF rowidAlias(info) THEN new(r, "id") ELSE r.rowid,
                   id |-> new(r, "id"), a |-> new(r, "a")]
        now(r) == IF hit(r) THEN upd(r) ELSE r
        clash == \E r, q \in tbl :
                    /\ r # q
                    /\ \/ now(r).id # NULL /\ now(r).id = now(q).id
                       \/ uniqueColumn(info, "a") /\ now(r).a = now(q).a
    IN IF clash THEN [ok |-> FALSE, rows |-> tbl]
       ELSE [ok |-> TRUE, rows |-> {now(r) : r \in tbl}]

\* runAsync of DELETE FROM t WHERE <where>.
runDelete(tbl, where, params) == {r \in tbl : ~Where(r, where, params)}

\* SELECT * FROM t WHERE <where> as getAllAsync returns it.
selectAll(tbl, where, params) ==
    LET l == getAllAsync([columns |-> <<"*">>, where |-> where, order |-> <<>>,
                          limit |-> ""], params, tbl, "rowid")
    IN Arr([i \in 1..Len(l) |-> Obj(l[i])])

(* ------------------------ utils: insertTransaction --------------------- *)
\* Mutant of insertedKey: the number of changed rows is taken for the key.
insertedChanges(res) == res.changes
\* The $id that the read-back of an inserted row binds.
insertedKey(res) == res.lastInsertRowId

\* The loop over values inside the one exclusive transaction: for each value
\* getPKColumnName, runAsync(INSERT) and getFirstAsync by lastInsertRowId.
\* n counts the engine calls.  A throw leaves the loop and the transaction.
RECURSIVE insertLoop(_, _, _, _, _)
insertLoop(tbl, info, values, data, n) ==
    IF values = <<>> THEN [ok |-> TRUE, rows |-> tbl, data |-> data, calls |-> n,
                           error |-> "null"]
    ELSE LET pkName == getPKColumnName(info)
             res == runInsert(tbl, info, values[1][2])
         IN IF pkName = <<>>
            THEN [ok |-> FALSE, rows |-> tbl, data |-> data, calls |-> n + 1,
                  error |-> noTableMessage]
            ELSE IF ~res.ok
            THEN [ok |-> FALSE, rows |-> tbl, data |-> data, calls |-> n + 2,
                  error |-> uniqueMessage]
            ELSE insertLoop(res.rows, info, Tail(values),
                            Append(data, getFirstAsync(res.rows, pkName[1],
                                                       insertedKey(res))),
                            n + 3)

\* Mutant of insertTransaction: one exclusive transaction per record, so that
\* the records before a failing one stay committed.
RECURSIVE insertTransactionPerRecord(_, _, _)
insertTransactionPerRecord(tbl, info, values) ==
    IF values = <<>> THEN [ok |-> TRUE, rows |-> tbl, data |-> <<>>, calls |-> 0,
                           error |-> "null"]
    ELSE LET one == insertLoop(tbl, info, <<values[1]>>, <<>>, 1)
             rest == insertTransactionPerRecord(one.rows, info, Tail(values))
         IN IF ~one.ok THEN one
            ELSE [rest EXCEPT !.data = one.data \o rest.data,
                              !.calls = one.calls + rest.calls]

\* withExclusiveTransactionAsync around the whole loop: the rows are committed
\* when the loop ends, and rolled back to tbl when a statement throws.
insertTransaction(tbl, info, values) ==
    LET t == insertLoop(tbl, info, values, <<>>, 1)
    IN IF t.ok THEN t ELSE [t EXCEPT !.rows = tbl]

(* --------------------- utils: update.ts, delete.ts --------------------- *)
\* The exclusive transaction of updateTransaction: the UPDATE with the merged
\* parameters { ...filterValues, ..._values }.
updateByFilter(tbl, info, f, entries) ==
    LET u == updateValues(entries)
    IN runUpdate(tbl, info, u.stmt, f.stmt, merge(filterValues(f), u.values))

\* The exclusive transaction of updateByPKTransaction / updateByPKsTransaction
\* for one key: WHERE <pk> = $<pk> with the parameters
\* { [$<pk>]: pk, ..._values }.
updateByKey(tbl, info, pkName, pk, entries) ==
    LET u == updateValues(entries)
        _pkName == "$" \o unquote(pkName)
    IN runUpdate(tbl, info, u.stmt, <<Cmp(pkName, "=", <<_pkName>>)>>,
                 merge(_pkName :> pk, u.values))

\* updateByPKsTransaction reads the row back inside the transaction callback
\* with client.getFirstAsync, not with the handle: the read runs on the
\* database connection, which sees what is committed, not what the open
\* transaction has written.
readInsideTransaction(committed, inside, pkName, pk) == getFirstAsync(committed, pkName, pk)

(* ----------------------------- useMutation ----------------------------- *)
\* setState at the start of a mutate function, and in its try and its catch.
\* Mutant of startMutation: only the flag is set.
startMutationFlagOnly(s) == [s EXCEPT !.mutating = TRUE]
startMutation(s) == [s EXCEPT !.mutating = TRUE, !.status = "mutating"]
successMutation(s, d) ==
    [s EXCEPT !.status = "success", !.success = TRUE, !.mutating = FALSE,
              !.data = d, !.error = "null"]
\* Mutant of errorMutation: the catch block stores the message only.
errorMutationMessageOnly(s, msg) == [s EXCEPT !.error = msg, !.mutating = FALSE]
errorMutation(s, msg) ==
    [s EXCEPT !.error = msg, !.status = "error", !.success = FALSE,
              !.mutating = FALSE, !.data = null]

requiresValuesMessage == "requires values when inserting records"

\* The callbacks of the try block, in the order of their calls, and those of
\* the catch block.
successCallbacks == <<"onFinish", "onData", "onSettled", "onSuccess">>
errorCallbacks == <<"onError", "onSettled">>
callbackMessage == "thrown by a callback"
\* The callbacks a caller gives: all return, or one of those called in the
\* try block throws when it is called there (one called before onSettled, or
\* onSettled itself).
Throwers == {"none", "onData", "onSettled"}

\* The state after the try block of an invocation whose engine work returned:
\* a callback that throws there leads into the catch block.
afterTry(s, d) ==
    IF thrower = "none" THEN successMutation(s, d) ELSE errorMutation(s, callbackMessage)

\* What is recorded of an invocation that has settled: its input, the table
\* when its engine work began and ended, what it stored as data, the number
\* of engine calls it made, whether its engine work committed, its per-key
\* transactions, and its callbacks, setState calls and engine calls in the
\* order they happened.
Settled(c, after, d, msg, n) ==
    LET thrown == msg = "null" /\ thrower # "none"
        calledUntil(t) ==
            SubSeq(successCallbacks, 1,
                   CHOOSE i \in 1..Len(successCallbacks) : successCallbacks[i] = t)
    IN [op |-> c.op, input |-> c.input, values |-> c.values, before |-> c.before,
        after |-> after, data |-> IF thrown THEN null ELSE d,
        error |-> IF thrown THEN callbackMessage ELSE msg, calls |-> n,
        status |-> IF msg = "null" /\ ~thrown THEN "success" ELSE "error",
        committed |-> msg = "null", txs |-> c.txs,
        events |-> <<"onStart", "setState mutating">> \o [i \in 1..n |-> "engine"]
                     \o (IF msg # "null" THEN errorCallbacks \o <<"setState error">>
                         ELSE IF thrown
                         THEN calledUntil(thrower) \o errorCallbacks \o <<"setState error">>
                         ELSE successCallbacks \o <<"setState success">>)]

CanMutate == Len(mcalls) < pending /\ Len(mcalls) + Len(done) < MaxMutations

\* A new invocation record.
Invocation(op, input, values) ==
    [op |-> op, pc |-> "tx", input |-> input, values |-> values, before |-> rows,
     after |-> rows, k |-> 1, data |-> <<>>, calls |-> 0, txs |-> <<>>]

\* Mutant of insertAsync: the check for an empty list is missing.
insertAsyncUnchecked(data) ==
    /\ operation = "insert"
    /\ CanMutate
    /\ LET values == IF ~isArray(data) THEN <<data>> ELSE data[2]
       IN mcalls' = Append(mcalls, Invocation("insert", data, values))
    /\ mstate' = startMutation(mstate)
    /\ UNCHANGED <<notMutated, operation, rows, engineCalls, done>>

\* insertAsync(data) up to its first await: an empty list throws inside the
\* try and is caught at once.
insertAsync(data) ==
    /\ operation = "insert"
    /\ CanMutate
    /\ LET singleRecord == ~isArray(data)
           values == IF singleRecord THEN <<data>> ELSE data[2]
           c == Invocation("insert", data, values)
       IN IF Len(values) = 0
          THEN /\ mstate' = errorMutation(startMutation(mstate), requiresValuesMessage)
               /\ done' = Append(done, Settled(c, rows, null, requiresValuesMessage, 0))
               /\ mcalls' = mcalls
          ELSE /\ mstate' = startMutation(mstate)
               /\ mcalls' = Append(mcalls, c)
               /\ done' = done
    /\ UNCHANGED <<notMutated, operation, rows, engineCalls>>

\* insertTransaction runs and insertAsync settles with its result.
InsertDone(i) ==
    /\ mcalls[i].op = "insert"
    /\ LET c == mcalls[i]
           t == insertTransaction(rows, tableInfo, c.values)
           d == IF isArray(c.input) THEN Arr(t.data) ELSE t.data[1]
       IN /\ rows' = t.rows
          /\ engineCalls' = engineCalls + t.calls
          /\ mstate' = IF t.ok THEN afterTry(mstate, d)
                       ELSE errorMutation(mstate, t.error)
          /\ done' = Append(done, Settled([c EXCEPT !.before = rows], t.rows,
                                          IF t.ok THEN d ELSE null, t.error, t.calls))
    /\ mcalls' = Remove(mcalls, i)
    /\ UNCHANGED <<notMutated, operation>>

\* useMutation updateAsync(filters, values) up to its first await.
updateAsync(f, entries) ==
    /\ operation = "update"
    /\ CanMutate
    /\ mstate' = startMutation(mstate)
    /\ mcalls' = Append(mcalls, Invocation("update", f, entries))
    /\ UNCHANGED <<notMutated, operation, rows, engineCalls, done>>

\* updateTransaction: the exclusive transaction with the UPDATE.
UpdateTx(i) ==
    /\ mcalls[i].op = "update"
    /\ mcalls[i].pc = "tx"
    /\ LET c == mcalls[i]
           t == updateByFilter(rows, tableInfo, c.input, c.values)
       IN /\ rows' = t.rows
          /\ IF t.ok
             THEN /\ mcalls' = [mcalls EXCEPT ![i].pc = "select", ![i].before = rows,
                                              ![i].after = t.rows]
                  /\ UNCHANGED <<mstate, done>>
             ELSE /\ mcalls' = Remove(mcalls, i)
                  /\ mstate' = errorMutation(mstate, uniqueMessage)
                  /\ done' = Append(done, Settled([c EXCEPT !.before = rows], rows,
                                                  null, uniqueMessage, 1))
    /\ engineCalls' = engineCalls + 1
    /\ UNCHANGED <<notMutated, operation>>

\* updateTransaction: the SELECT with the same predicate, after the
\* transaction; updateAsync settles with its rows.
UpdateSelect(i) ==
    /\ mcalls[i].op = "update"
    /\ mcalls[i].pc = "select"
    /\ LET c == mcalls[i]
           d == selectAll(rows, c.input.stmt, filterValues(c.input))
       IN /\ mstate' = afterTry(mstate, d)
          /\ done' = Append(done, Settled(c, c.after, d, "null", 2))
    /\ mcalls' = Remove(mcalls, i)
    /\ engineCalls' = engineCalls + 1
    /\ UNCHANGED <<notMutated, operation, rows>>

\* useMutation deleteAsync(filters) up to its first await.
deleteAsync(f) ==
    /\ operation = "delete"
    /\ CanMutate
    /\ mstate' = startMutation(mstate)
    /\ mcalls' = Append(mcalls, Invocation("delete", f, <<>>))
    /\ UNCHANGED <<notMutated, operation, rows, engineCalls, done>>

\* deleteTransaction runs and deleteAsync settles.
DeleteDone(i) ==
    /\ mcalls[i].op = "delete"
    /\ LET c == mcalls[i]
           after == runDelete(rows, c.input.stmt, filterValues(c.input))
       IN /\ rows' = after
          /\ done' = Append(done, Settled([c EXCEPT !.before = rows], after, null,
                                          "null", 1))
    /\ mstate' = afterTry(mstate, null)
    /\ mcalls' = Remove(mcalls, i)
    /\ engineCalls' = engineCalls + 1
    /\ UNCHANGED <<notMutated, operation>>

\* useMutationByPK updateAsync(pk, values) up to its first await: the primary
\* key column is resolved before the transaction is opened.
updateByPKAsync(pk, entries) ==
    /\ operation = "updateByPK"
    /\ CanMutate
    /\ LET c == Invocation("updateByPK", <<pk>>, entries)
       IN IF getPKColumnName(tableInfo) = <<>>
          THEN /\ mstate' = errorMutation(startMutation(mstate), noTableMessage)
               /\ done' = Append(done, Settled(c, rows, null, noTableMessage, 1))
               /\ mcalls' = mcalls
          ELSE /\ mstate' = startMutation(mstate)
               /\ mcalls' = Append(mcalls, c)
               /\ done' = done
    /\ engineCalls' = engineCalls + 1
    /\ UNCHANGED <<notMutated, operation, rows>>

\* updateByPKTransaction: the exclusive transaction with the UPDATE.
UpdateByPKTx(i) ==
    /\ mcalls[i].op = "updateByPK"
    /\ mcalls[i].pc = "tx"
    /\ LET c == mcalls[i]
           t == updateByKey(rows, tableInfo, getPKColumnName(tableInfo)[1],
                            c.input[1], c.values)
       IN /\ rows' = t.rows
          /\ IF t.ok
             THEN /\ mcalls' = [mcalls EXCEPT ![i].pc = "select", ![i].before = rows,
                                              ![i].after = t.rows]
                  /\ UNCHANGED <<mstate, done>>
             ELSE /\ mcalls' = Remove(mcalls, i)
                  /\ mstate' = errorMutation(mstate, uniqueMessage)
                  /\ done' = Append(done, Settled([c EXCEPT !.before = rows], rows,
                                                  null, uniqueMessage, 2))
    /\ engineCalls' = engineCalls + 1
    /\ UNCHANGED <<notMutated, operation>>

\* Mutant of UpdateByPKSelect: the row is read as it was before the
\* transaction.
UpdateByPKSelectStale(i) ==
    /\ mcalls[i].op = "updateByPK"
    /\ mcalls[i].pc = "select"
    /\ LET c == mcalls[i]
           d == getFirstAsync(c.before, getPKColumnName(tableInfo)[1], c.input[1])
       IN /\ mstate' = afterTry(mstate, d)
          /\ done' = Append(done, Settled(c, c.after, d, "null", 3))
    /\ mcalls' = Remove(mcalls, i)
    /\ engineCalls' = engineCalls + 1
    /\ UNCHANGED <<notMutated, operation, rows>>

\* updateByPKTransaction: the read-back after the transaction; updateAsync
\* settles with the row.
UpdateByPKSelect(i) ==
    /\ mcalls[i].op = "updateByPK"
    /\ mcalls[i].pc = "select"
    /\ LET c == mcalls[i]
           d == getFirstAsync(rows, getPKColumnName(tableInfo)[1], c.input[1])
       IN /\ mstate' = afterTry(mstate, d)
          /\ done' = Append(done, Settled(c, c.after, d, "null", 3))
    /\ mcalls' = Remove(mcalls, i)
    /\ engineCalls' = engineCalls + 1
    /\ UNCHANGED <<notMutated, operation, rows>>

\* useMutationByPKs updateAsync(pks, values) up to its first await.
updateByPKsAsync(pks, entries) ==
    /\ operation = "updateByPKs"
    /\ CanMutate
    /\ mstate' = startMutation(mstate)
    /\ mcalls' = Append(mcalls, Invocation("updateByPKs", pks, entries))
    /\ UNCHANGED <<notMutated, operation, rows, engineCalls, done>>

\* Mutant of afterFailedKey: the keys before the failing one are rolled back.
afterFailedKeyRollback(start, committed) == start

\* The table after the transaction of a key has failed: what the
\* transactions of the keys before it committed stays.
afterFailedKey(start, committed) == committed

\* updateByPKsTransaction: the exclusive transaction of the next key, with the
\* UPDATE and the read-back; after the last key updateAsync settles with the
\* rows read.  A throw (no primary key, a failed UPDATE) leaves the loop.
UpdateByPKsTx(i) ==
    /\ mcalls[i].op = "updateByPKs"
    /\ LET c == mcalls[i]
           pks == c.input
           pkName == getPKColumnName(tableInfo)
           t == updateByKey(rows, tableInfo, pkName[1], pks[c.k], c.values)
           d == Append(c.data, readInsideTransaction(rows, t.rows, pkName[1], pks[c.k]))
           n == c.calls + 3
           c2 == [c EXCEPT !.txs = Append(c.txs, [key |-> pks[c.k], before |-> rows,
                                                   after |-> t.rows, ok |-> t.ok])]
       IN IF c.k > Len(pks)
          THEN /\ mstate' = afterTry(mstate, Arr(c.data))
               /\ done' = Append(done, Settled(c, rows, Arr(c.data), "null", c.calls))
               /\ mcalls' = Remove(mcalls, i)
               /\ UNCHANGED <<rows, engineCalls>>
          ELSE IF pkName = <<>>
          THEN /\ mstate' = errorMutation(mstate, noTableMessage)
               /\ done' = Append(done, Settled(c, rows, null, noTableMessage, c.calls + 1))
               /\ mcalls' = Remove(mcalls, i)
               /\ engineCalls' = engineCalls + 1
               /\ UNCHANGED rows
          ELSE /\ engineCalls' = engineCalls + 3
               /\ rows' = IF t.ok THEN t.rows ELSE afterFailedKey(c.before, t.rows)
               /\ IF ~t.ok
                  THEN /\ mstate' = errorMutation(mstate, uniqueMessage)
                       /\ done' = Append(done, Settled(c2, rows', null, uniqueMessage, n))
                       /\ mcalls' = Remove(mcalls, i)
                  ELSE IF c.k = Len(pks)
                  THEN /\ mstate' = afterTry(mstate, Arr(d))
                       /\ done' = Append(done, Settled(c2, t.rows, Arr(d), "null", n))
                       /\ mcalls' = Remove(mcalls, i)
                  ELSE /\ mcalls' = [mcalls EXCEPT ![i] = [c2 EXCEPT !.k = c.k + 1,
                                                                    !.data = d, !.calls = n]]
                       /\ UNCHANGED <<mstate, done>>
    /\ UNCHANGED <<notMutated, operation>>

\* The exclusive transaction of deleteByPKTransaction / deleteByPKsTransaction
\* for one key: DELETE ... WHERE <pk> = ? with the key as its parameter.
deleteByKey(tbl, pkName, pk) == runDelete(tbl, <<Cmp(pkName, "=", <<"?">>)>>, "?" :> pk)

\* useMutationByPK deleteAsync(pk) up to its first await: the primary key
\* column is resolved before the transaction is opened.
deleteByPKAsync(pk) ==
    /\ operation = "deleteByPK"
    /\ CanMutate
    /\ LET c == Invocation("deleteByPK", <<pk>>, <<>>)
       IN IF getPKColumnName(tableInfo) = <<>>
          THEN /\ mstate' = errorMutation(startMutation(mstate), noTableMessage)
               /\ done' = Append(done, Settled(c, rows, null, noTableMessage, 1))
               /\ mcalls' = mcalls
          ELSE /\ mstate' = startMutation(mstate)
               /\ mcalls' = Append(mcalls, c)
               /\ done' = done
    /\ engineCalls' = engineCalls + 1
    /\ UNCHANGED <<notMutated, operation, rows>>

\* deleteByPKTransaction: the transaction with the DELETE; deleteAsync settles.
DeleteByPKDone(i) ==
    /\ mcalls[i].op = "deleteByPK"
    /\ LET c == mcalls[i]
           after == deleteByKey(rows, getPKColumnName(tableInfo)[1], c.input[1])
       IN /\ rows' = after
          /\ done' = Append(done, Settled([c EXCEPT !.before = rows], after, null,
                                          "null", 2))
    /\ mstate' = afterTry(mstate, null)
    /\ mcalls' = Remove(mcalls, i)
    /\ engineCalls' = engineCalls + 1
    /\ UNCHANGED <<notMutated, operation>>

\* useMutationByPKs deleteAsync(pks) up to its first await.
deleteByPKsAsync(pks) ==
    /\ operation = "deleteByPKs"
    /\ CanMutate
    /\ mstate' = startMutation(mstate)
    /\ mcalls' = Append(mcalls, Invocation("deleteByPKs", pks, <<>>))
    /\ UNCHANGED <<notMutated, operation, rows, engineCalls, done>>

\* deleteByPKsTransaction: the exclusive transaction of the next key; after
\* the last key deleteAsync settles.  A throw (no primary key) leaves the loop.
DeleteByPKsTx(i) ==
    /\ mcalls[i].op = "deleteByPKs"
    /\ LET c == mcalls[i]
           pks == c.input
           pkName == getPKColumnName(tableInfo)
           after == deleteByKey(rows, pkName[1], pks[c.k])
           n == c.calls + 2
           c2 == [c EXCEPT !.txs = Append(c.txs, [key |-> pks[c.k], before |-> rows,
                                                   after |-> after, ok |-> TRUE])]
       IN IF c.k > Len(pks)
          THEN /\ mstate' = afterTry(mstate, null)
               /\ done' = Append(done, Settled(c, rows, null, "null", c.calls))
               /\ mcalls' = Remove(mcalls, i)
               /\ UNCHANGED <<rows, engineCalls>>
          ELSE IF pkName = <<>>
          THEN /\ mstate' = errorMutation(mstate, noTableMessage)
               /\ done' = Append(done, Settled(c, rows, null, noTableMessage, c.calls + 1))
               /\ mcalls' = Remove(mcalls, i)
               /\ engineCalls' = engineCalls + 1
               /\ UNCHANGED rows
          ELSE /\ engineCalls' = engineCalls + 2
               /\ rows' = after
               /\ IF c.k = Len(pks)
                  THEN /\ mstate' = afterTry(mstate, null)
                       /\ done' = Append(done, Settled(c2, after, null, "null", n))
                       /\ mcalls' = Remove(mcalls, i)
                  ELSE /\ mcalls' = [mcalls EXCEPT ![i] = [c2 EXCEPT !.k = c.k + 1,
                                                                    !.calls = n]]
                       /\ UNCHANGED <<mstate, done>>
    /\ UNCHANGED <<notMutated, operation>>

(* ----------------------- mutation configurations ----------------------- *)
MutTableInfos ==
    {<<[name |-> "id", pk |-> k, type |-> t, unique |-> FALSE],
       [name |-> "a", pk |-> 0, type |-> "INTEGER", unique |-> u]>> :
        k \in {0, 1}, t \in {"INTEGER", "INT"}, u \in BOOLEAN}

\* Stored tables: n rows with the keys (and rowids) 1..n.
StoredTables ==
    UNION {{ {[rowid |-> k, id |-> k, a |-> f[k]] : k \in 1..n} :
                f \in [1..n -> 1..MaxVal]} : n \in 0..MaxStored}

\* The records a caller inserts: without a key, or with the key given.
InsertRecords ==
    {Obj(<<<<"a", v>>>>) : v \in 1..MaxVal}
        \cup {Obj(<<<<"id", k>>, <<"a", 1>>>>) : k \in 1..(MaxStored + 1)}
InsertInputs ==
    InsertRecords \cup {Arr(l) : l \in UNION {[1..n -> InsertRecords] : n \in 0..MaxBatch}}

\* The update objects: column a set, or the primary key column itself set.
UpdateValues ==
    {<<<<"a", v>>>> : v \in 1..MaxVal} \cup {<<<<"id", k>>>> : k \in {1, MaxStored + 1}}
\* The predicates of update and delete by predicate.
MutPredicates == {p[1] : p \in Predicates \ {<<>>}}
Keys == 1..(MaxStored + 1)
KeyLists == UNION {[1..n -> Keys] : n \in 0..MaxBatch}

Operations ==
    {"insert", "update", "delete", "updateByPK", "updateByPKs", "deleteByPK", "deleteByPKs"}

\* Every operation and every choice of callbacks runs on a table with an
\* INTEGER PRIMARY KEY and a plain column a.  The table of the added
\* "id INT PRIMARY KEY" column is kept to insert, whose read-back is by rowid
\* (the other operations never use the rowid), a table without primary key to
\* the operations that resolve the primary key, and a table whose column a is
\* unique to the updates by key; on these, the callbacks return.  The rows of
\* the table with the unique column hold distinct values from 2, so that an
\* update can set a value that no row has and one that another row has.
InitMutate ==
    /\ operation \in Operations
    /\ thrower \in Throwers
    /\ pending = MaxPending
    /\ tableInfo \in MutTableInfos
    /\ \/ rowidAlias(tableInfo) /\ ~tableInfo[2].unique
       \/ /\ thrower = "none"
          /\ \/ /\ tableInfo[1].pk = 1
                /\ tableInfo[1].type = "INT"
                /\ ~tableInfo[2].unique
                /\ operation = "insert"
             \/ /\ tableInfo[1].pk = 0
                /\ tableInfo[1].type = "INTEGER"
                /\ ~tableInfo[2].unique
                /\ operation \notin {"update", "delete"}
             \/ /\ rowidAlias(tableInfo)
                /\ tableInfo[2].unique
                /\ operation \in {"updateByPK", "updateByPKs"}
    /\ rows \in IF tableInfo[2].unique
                 THEN {{[r EXCEPT !.a = r.a + 1] : r \in t} :
                          t \in {u \in StoredTables : \A r, q \in u : r # q => r.a # q.a}}
                 ELSE StoredTables
    /\ options = [pageSize |-> 1, cursor |-> undefined, order |-> <<>>]
    /\ filters = <<>>
    /\ select = <<>>
    /\ inflight = MaxInflight
    /\ HookInit
    /\ CompileInit
    /\ mstate = initialMutationState
    /\ mcalls = <<>>
    /\ done = <<>>
    /\ CreateInit

NextMutate ==
    \/ \E data \in InsertInputs : insertAsync(data)
    \/ \E i \in 1..Len(mcalls) : InsertDone(i)
    \/ \E f \in MutPredicates, entries \in UpdateValues : updateAsync(f, entries)
    \/ \E i \in 1..Len(mcalls) : UpdateTx(i)
    \/ \E i \in 1..Len(mcalls) : UpdateSelect(i)
    \/ \E f \in MutPredicates : deleteAsync(f)
    \/ \E i \in 1..Len(mcalls) : DeleteDone(i)
    \/ \E pk \in Keys, entries \in UpdateValues : updateByPKAsync(pk, entries)
    \/ \E i \in 1..Len(mcalls) : UpdateByPKTx(i)
    \/ \E i \in 1..Len(mcalls) : UpdateByPKSelect(i)
    \/ \E pks \in KeyLists, entries \in UpdateValues : updateByPKsAsync(pks, entries)
    \/ \E i \in 1..Len(mcalls) : UpdateByPKsTx(i)
    \/ \E pk \in Keys : deleteByPKAsync(pk)
    \/ \E i \in 1..Len(mcalls) : DeleteByPKDone(i)
    \/ \E pks \in KeyLists : deleteByPKsAsync(pks)
    \/ \E i \in 1..Len(mcalls) : DeleteByPKsTx(i)

SpecMutate == InitMutate /\ [][NextMutate]_vars

\* The caller does not await mutate: up to MaxOverlap invocations of the same
\* hook are in flight together, on a table with an INTEGER PRIMARY KEY that
\* holds one row, with callbacks that return.
MaxOverlap == 2

InitOverlap ==
    /\ operation \in Operations
    /\ thrower = "none"
    /\ pending = MaxOverlap
    /\ tableInfo \in {t \in MutTableInfos : rowidAlias(t) /\ ~t[2].unique}
    /\ rows \in {t \in StoredTables : Cardinality(t) = 1}
    /\ options = [pageSize |-> 1, cursor |-> undefined, order |-> <<>>]
    /\ filters = <<>>
    /\ select = <<>>
    /\ inflight = MaxInflight
    /\ HookInit
    /\ CompileInit
    /\ mstate = initialMutationState
    /\ mcalls = <<>>
    /\ done = <<>>
    /\ CreateInit

SpecOverlap == InitOverlap /\ [][NextMutate]_vars

(* --------------------- create_table.ts, useCreateTables ---------------- *)
MaxDeclared == 2
MaxAttempts == 2

TableNames == {"t", "u"}
defaultOptions == [skipIfExist |-> TRUE, snakeCase |-> FALSE, timestamps |-> TRUE]
pkTypeMessage == "Primary Key Column can only have type INTEGER"
twoKeysMessage == "must have exactly one primary key column"

\* Mutant of tooManyKeys: only three or more primary-key fields are refused.
tooManyKeysAboveTwo(pkCount) == pkCount >= 3

\* useCreateTables.ts, line 148.
tooManyKeys(pkCount) == pkCount >= 2

\* getColumnsAndOptions: the column definitions of the CREATE statement (the
\* id column it adds when no field is a primary key, the declared fields, the
\* timestamps), pkCount and skipIfExist; field.stmt() throws for a primary
\* key whose type is not INTEGER.
getColumnsAndOptions(values, opts) ==
    LET fields == values.fields
        pkCount == Cardinality({i \in 1..Len(fields) : fields[i].primaryKey})
        _timestamps == IF values.timestamps = <<>> THEN opts.timestamps
                       ELSE values.timestamps[1]
        _skipIfExist == IF values.skipIfExist = <<>> THEN opts.skipIfExist
                        ELSE values.skipIfExist[1]
        t == IF _timestamps
             THEN <<[name |-> "createdAt", pk |-> FALSE], [name |-> "updatedAt", pk |-> FALSE]>>
             ELSE <<>>
        cols == [i \in 1..Len(fields) |-> [name |-> fields[i].name, pk |-> fields[i].primaryKey]]
    IN IF \E i \in 1..Len(fields) : fields[i].primaryKey /\ fields[i].type # "INTEGER"
       THEN [error |-> pkTypeMessage, stmt |-> <<>>, pkCount |-> pkCount,
             skipIfExist |-> _skipIfExist]
       ELSE [error |-> "null",
             stmt |-> IF pkCount = 0 THEN <<[name |-> "id", pk |-> TRUE]>> \o cols \o t
                      ELSE cols \o t,
             pkCount |-> pkCount, skipIfExist |-> _skipIfExist]

\* The loop of createTable over the declared tables: the statements of the
\* call, or the error thrown on the way.
RECURSIVE buildStmts(_, _, _)
buildStmts(decls, i, stmts) ==
    IF i > Len(decls) THEN [error |-> "null", stmts |-> stmts]
    ELSE LET c == getColumnsAndOptions(decls[i], defaultOptions)
             create == [kind |-> "create", table |-> decls[i].name,
                        ifNotExists |-> c.skipIfExist, columns |-> c.stmt]
             drop == [kind |-> "drop", table |-> decls[i].name, ifNotExists |-> TRUE,
                      columns |-> <<>>]
         IN IF c.error # "null" THEN [error |-> c.error, stmts |-> <<>>]
            ELSE IF tooManyKeys(c.pkCount) THEN [error |-> twoKeysMessage, stmts |-> <<>>]
            ELSE buildStmts(decls, i + 1,
                            stmts \o (IF c.skipIfExist THEN <<>> ELSE <<drop>>) \o <<create>>)

\* The engine executes one DDL statement on the schema d.
execAsync(d, stmt) ==
    LET cols == stmt.columns
    IN IF stmt.kind = "drop" THEN [ok |-> TRUE, db |-> [d EXCEPT ![stmt.table] = <<>>]]
       ELSE IF d[stmt.table] # <<>> THEN [ok |-> stmt.ifNotExists, db |-> d]
       ELSE IF \/ \E i, j \in 1..Len(cols) : i # j /\ cols[i].name = cols[j].name
               \/ Cardinality({i \in 1..Len(cols) : cols[i].pk}) > 1
            THEN [ok |-> FALSE, db |-> d]
       ELSE [ok |-> TRUE,
             db |-> [d EXCEPT ![stmt.table] =
                        [i \in 1..Len(cols) |->
                            [name |-> cols[i].name, pk |-> IF cols[i].pk THEN 1 ELSE 0]]]]

RECURSIVE execLoop(_, _, _)
execLoop(d, stmts, i) ==
    IF i > Len(stmts) THEN [ok |-> TRUE, db |-> d, executed |-> Len(stmts)]
    ELSE LET r == execAsync(d, stmts[i])
         IN IF r.ok THEN execLoop(r.db, stmts, i + 1)
            ELSE [ok |-> FALSE, db |-> d, executed |-> i]

\* Mutant of createTablesTransaction: the statements run outside a transaction.
createTablesUnprotected(d, stmts) == execLoop(d, stmts, 1)

\* createTablesTransaction: every statement of the call in one exclusive
\* transaction, rolled back when a statement fails.
createTablesTransaction(d, stmts) ==
    LET r == execLoop(d, stmts, 1)
    IN IF r.ok THEN r ELSE [r EXCEPT !.db = d]

\* A settled call of createTable.
Attempted(before, after, stmts, executed, status, callbacks) ==
    [before |-> before, after |-> after, stmts |-> stmts, executed |-> executed,
     status |-> status, callbacks |-> callbacks]

\* createTable (the mount effect, or retry) up to its first await; an error
\* thrown in the loop is caught before anything is awaited.
createTable ==
    /\ Len(attempts) + Len(attempt) < MaxAttempts
    /\ LET b == buildStmts(declared, 1, <<>>)
       IN IF b.error # "null"
          THEN /\ cstate' = [cstate EXCEPT !.success = FALSE, !.creating = FALSE,
                                           !.error = b.error, !.sql = <<>>,
                                           !.tables = <<"null">>, !.status = "error"]
               /\ attempts' = Append(attempts,
                     Attempted(db, db, <<>>, 0, "error", <<"onStart", "onError">>))
               /\ UNCHANGED attempt
          ELSE /\ cstate' = [cstate EXCEPT !.creating = TRUE, !.status = "creating"]
               /\ attempt' = Append(attempt, [stmts |-> b.stmts])
               /\ UNCHANGED attempts
    /\ UNCHANGED <<config, hookVars, compileVars, mutVars, db, declared, lookup>>

\* The transaction of a call of createTable ends, and the call settles.
CreateDone(i) ==
    LET c == attempt[i]
        t == createTablesTransaction(db, c.stmts)
    IN /\ db' = t.db
       /\ attempt' = Remove(attempt, i)
       /\ IF t.ok
          THEN /\ cstate' = [cstate EXCEPT !.success = TRUE, !.creating = FALSE,
                                           !.error = "null", !.sql = c.stmts,
                                           !.tables = [k \in 1..Len(declared) |->
                                                          declared[k].name],
                                           !.status = "success"]
               /\ attempts' = Append(attempts,
                     Attempted(db, t.db, c.stmts, t.executed, "success",
                               <<"onStart", "onFinish", "onSettled", "onSuccess">>))
          ELSE /\ cstate' = [cstate EXCEPT !.success = FALSE, !.creating = FALSE,
                                           !.error = "engine", !.sql = <<>>,
                                           !.tables = <<"null">>, !.status = "error"]
               /\ attempts' = Append(attempts,
                     Attempted(db, t.db, c.stmts, t.executed, "error",
                               <<"onStart", "onError">>))
       /\ UNCHANGED <<config, hookVars, compileVars, mutVars, declared, lookup>>

\* A hook resolves the primary key of a table.
PKLookup(name) ==
    /\ lookup' = <<[table |-> name, info |-> db[name],
                    result |-> getPKColumnName(db[name])]>>
    /\ lookup' # lookup
    /\ UNCHANGED <<config, hookVars, compileVars, mutVars, db, declared, cstate,
                   attempt, attempts>>

\* Declared fields: no key, one key, two keys, a field named as the added id
\* column, a key of a type other than INTEGER.
Field(n, k, t) == [name |-> n, primaryKey |-> k, type |-> t]
FieldSets ==
    {<<Field("a", FALSE, "INTEGER")>>,
     <<Field("id", TRUE, "INTEGER"), Field("a", FALSE, "INTEGER")>>,
     <<Field("id", TRUE, "INTEGER"), Field("a", TRUE, "INTEGER")>>,
     <<Field("id", FALSE, "TEXT")>>,
     <<Field("id", TRUE, "TEXT")>>}
Declarations ==
    [name : TableNames, fields : FieldSets, skipIfExist : {<<>>, <<FALSE>>},
     timestamps : {<<>>, <<FALSE>>}]

\* Tables the database file holds before the hook mounts (PRAGMA table_info:
\* pk is the position of the column in the primary key, 0 outside it).
Column(n, k) == [name |-> n, pk |-> k]
StoredInfos ==
    {<<>>,
     <<Column("id", 0), Column("a", 0)>>,
     <<Column("id", 1), Column("a", 0)>>,
     <<Column("id", 1), Column("a", 2)>>,
     <<Column("id", 2), Column("a", 1)>>}

InitCreate ==
    /\ tableInfo = <<>>
    /\ rows = {}
    /\ options = [pageSize |-> 1, cursor |-> undefined, order |-> <<>>]
    /\ filters = <<>>
    /\ select = <<>>
    /\ inflight = MaxInflight
    /\ HookInit
    /\ CompileInit
    /\ MutInit
    /\ db \in [TableNames -> StoredInfos]
    /\ db["u"] \in {<<>>, <<Column("id", 1), Column("a", 0)>>}
    /\ declared \in UNION {{d \in [1..n -> Declarations] :
                              \A i, j \in 1..n : i # j => d[i].name # d[j].name} :
                           n \in 1..MaxDeclared}
    /\ cstate = initialCreateState
    /\ attempt = <<>>
    /\ attempts = <<>>
    /\ lookup = <<>>

NextCreate ==
    \/ createTable
    \/ \E i \in 1..Len(attempt) : CreateDone(i)
    \/ \E name \in TableNames : PKLookup(name)

SpecCreate == InitCreate /\ [][NextCreate]_vars

(* ------------------------------- claims -------------------------------- *)
\* state.data is the result of a fetch that the engine answered.
Fetched == shown.op # "none" /\ tableInfo # <<>>
PkColumn == tableInfo[1].name
Matches(r) == filters = <<>> \/ r["a"] \in filters[1].sem

\* C1 case: primary key column id with the keys 1..n, no predicate, no order
\* option, no projection, no initial cursor.
DefaultPaging ==
    /\ tableInfo # <<>>
    /\ PkColumn = "id"
    /\ filters = <<>>
    /\ select = <<>>
    /\ options.order = <<>>
    /\ options.cursor = undefined

\* C1: with keys 1..n and pageSize p, page j (the first fetch, then each
\* fetchNextPage) holds exactly the keys (j-1)*p+1 .. min(j*p, n) in ascending
\* order, hasNextPage = (j*p < n), nextCursor = j*p when hasNextPage and
\* absent otherwise, isLastPage = ~hasNextPage.
C1_PageContents ==
    (DefaultPaging /\ shown.op \in {"mount", "fetchNextPage"}) =>
        LET n == Cardinality(rows)
            p == options.pageSize
            j == shown.pageNo
            hi == IF j * p < n THEN j * p ELSE n
        IN /\ [i \in 1..Len(state.data.page) |-> state.data.page[i]["id"]]
                = [i \in 1..(hi - (j - 1) * p) |-> (j - 1) * p + i]
           /\ state.data.items = hi - (j - 1) * p
           /\ state.data.hasNextPage = (j * p < n)
           /\ state.data.nextCursor = (IF j * p < n THEN j * p ELSE undefined)
           /\ state.data.isLastPage = ~(j * p < n)

C1_Witness ==
    /\ DefaultPaging
    /\ Cardinality(rows) = 3
    /\ options.pageSize = 2
    /\ shown.op = "fetchNextPage"
    /\ shown.pageNo = 2
    /\ Len(state.data.page) = 1
    /\ state.data.page[1]["id"] = 3
    /\ state.data.isLastPage

\* The predicate is absent or holds no OR (a predicate with OR is C3's case).
Conjunctive ==
    filters = <<>> \/ \A i \in 1..Len(filters[1].stmt) : filters[1].stmt[i].kind # "OR"

\* C2: after a successful fetch of a non-empty page, hasNextPage is true
\* exactly when some row matching the predicate has a primary key greater
\* than that of the last row of the page, whatever the name of the primary
\* key column and whatever the projection (stated for the predicates
\* without OR).
C2_HasNextPage ==
    (Fetched /\ Conjunctive /\ state.data.items > 0) =>
        (state.data.hasNextPage <=>
            \E r \in rows : Matches(r) /\ r[PkColumn] > shown.keys[Len(shown.keys)])

\* C3: every row of a page fetched with a cursor has a primary key strictly
\* greater than the cursor, for every predicate.
C3_AfterCursor ==
    (Fetched /\ shown.cursor # undefined) =>
        \A i \in 1..Len(shown.keys) : shown.keys[i] > shown.cursor

\* C4: refetchPage fetches with the cursor of the initial fetch as long as no
\* fetchNextPage has fetched, and otherwise with the cursor passed by the
\* latest fetchNextPage.
C4_RefetchCursor ==
    [][(ops' = ops + 1 /\ lastOp' = "refetchPage" /\ Len(calls') = Len(calls) + 1) =>
            calls'[Len(calls')].cursor =
                (IF latestNext = <<>> THEN options.cursor ELSE latestNext[1])]_vars

\* C5: on an unchanged table, refetchPage called when the result of a settled
\* fetchNextPage is displayed yields the same PaginatedResult: the same page,
\* items, nextCursor, hasNextPage, isFirstPage and isLastPage (stated for the
\* predicates without OR).
C5_RefetchSamePage ==
    (Fetched /\ Conjunctive /\ shown.op = "refetchPage"
        /\ shown.before.op = "fetchNextPage" /\ shown.before.idle) =>
        state.data = shown.before.data

\* C6: fetchNextPage with data.hasNextPage false issues no engine call and
\* leaves the hook state and the previous cursor unchanged; with hasNextPage
\* true it records data.nextCursor as the previous cursor and fetches with
\* exactly that cursor.
C6_FetchNextPage ==
    [][(ops' = ops + 1 /\ lastOp' = "fetchNextPage") =>
            IF ~state.data.hasNextPage
            THEN UNCHANGED <<state, previousCursor, calls, engineCalls>>
            ELSE /\ previousCursor' = state.data.nextCursor
                 /\ Len(calls') = Len(calls) + 1
                 /\ calls'[Len(calls')].cursor = state.data.nextCursor
                 /\ engineCalls' > engineCalls]_vars

\* fetchNextPage was called on an exhausted first page and did nothing.
C6_WitnessNoop ==
    /\ lastOp = "fetchNextPage"
    /\ ops = 1
    /\ shown.op = "mount"
    /\ calls = <<>>
    /\ state.status = "exhausted"
    /\ previousCursor = undefined

\* C7: in every state of the hook (initial, fetch in flight, success,
\* exhausted, error) data.isLastPage is true exactly when data.nextCursor is
\* absent.
C7_IsLastPage == state.data.isLastPage <=> (state.data.nextCursor = undefined)


\* The flt results a caller has built, combined or not.
Leaves == args \o (IF pred = <<>> THEN <<>> ELSE pred[1].leaves)
PlaceholdersOf(e) == e.f.stmt[1].params
GivenValue(e, i) == IF e.fn \in ScalarFns THEN e.value ELSE e.value[i]
\* The binding objects of a filter result, in order.
BindingsOf(e) ==
    IF isArray(e.f.values)
    THEN [k \in 1..Len(e.f.values[2]) |-> e.f.values[2][k][2]]
    ELSE <<e.f.values[2]>>
NamesOf(e) == {PlaceholdersOf(e)[i] : i \in 1..Len(PlaceholdersOf(e))}

\* C8 case: no two filters of the predicate share a parameter name (shared
\* names are C10's case).
NoCollision ==
    \A i, j \in 1..Len(Leaves) : i < j => NamesOf(Leaves[i]) \cap NamesOf(Leaves[j]) = {}

\* C8: the parameter map that select, paginated select, update by predicate
\* and delete by predicate hand to the engine binds every placeholder of the
\* predicate's statement to the value the caller gave, for filters combined
\* by op.and / op.or to any depth (stated for filters with distinct names).
C8_AllPlaceholdersBound ==
    (handed # <<>> /\ NoCollision) =>
        LET cmps == SelectSeq(pred[1].f.stmt, LAMBDA t : t.kind = "cmp")
        IN \A k \in 1..Len(cmps) : \A i \in 1..Len(cmps[k].params) :
              /\ cmps[k].params[i] \in DOMAIN handed[1].params
              /\ handed[1].params[cmps[k].params[i]] = GivenValue(pred[1].leaves[k], i)

\* C9: a filter result binds exactly its placeholders, one entry each; a
\* filter over N values has N distinct placeholders, the i-th bound to the
\* i-th value.
C9_FilterBindings ==
    \A e \in {Leaves[k] : k \in 1..Len(Leaves)} :
        LET ps == PlaceholdersOf(e)
            bs == BindingsOf(e)
        IN /\ Len(e.f.stmt) = 1
           /\ Len(ps) = (IF e.fn \in ScalarFns THEN 1 ELSE Len(e.value))
           /\ Cardinality(NamesOf(e)) = Len(ps)
           /\ Len(bs) = Len(ps)
           /\ \A i \in 1..Len(ps) :
                 DOMAIN bs[i] = {ps[i]} /\ bs[i][ps[i]] = GivenValue(e, i)

C9_Witness ==
    \E k \in 1..Len(args) :
        /\ args[k].fn = "notIn"
        /\ Len(args[k].value) = 2
        /\ Len(PlaceholdersOf(args[k])) = 2
        /\ PlaceholdersOf(args[k])[1] # PlaceholdersOf(args[k])[2]

\* C11: flt.between with a value list whose length is not 2 throws: the call
\* builds no statement (no filter result comes out of it) and hands nothing to
\* the engine; with [a, b] it returns the single comparison
\* col BETWEEN p0 AND p1 with two distinct placeholders, p0 bound to a and p1
\* bound to b.
C11_Between ==
    [][(lastFlt' # lastFlt /\ lastFlt'[1].fn = "between") =>
            LET c == lastFlt'[1] IN
            IF Len(c.list) # 2
            THEN /\ c.error # "null"
                 /\ UNCHANGED <<args, pred, handed, engineCalls>>
            ELSE /\ c.error = "null"
                 /\ Len(args') = Len(args) + 1
                 /\ LET f == args'[Len(args')].f
                        p0 == f.stmt[1].params[1]
                        p1 == f.stmt[1].params[2]
                    IN /\ Len(f.stmt) = 1
                       /\ f.stmt[1].col = quote(c.column)
                       /\ f.stmt[1].cmp = "BETWEEN"
                       /\ Len(f.stmt[1].params) = 2
                       /\ p0 # p1
                       /\ isArray(f.values)
                       /\ reduceSpread(f.values) = (p0 :> c.list[1]) @@ (p1 :> c.list[2])
                 /\ UNCHANGED <<handed, engineCalls>>]_vars

\* between was called with [11, 12] and returned its filter, then with a list
\* of another length and threw.
C11_Witness ==
    /\ Len(args) = 1
    /\ args[1].fn = "between"
    /\ args[1].value = <<11, 12>>
    /\ lastFlt # <<>>
    /\ lastFlt[1].fn = "between"
    /\ Len(lastFlt[1].list) # 2
    /\ lastFlt[1].error = betweenMessage

\* The values of column a that tell the modelled filters apart.
RowValues == 0..(10 * (MaxArgs + 1) + MaxList + 1)
\* Every placeholder of the predicate bound to the value its flt call was given.
FullBindings ==
    LET at(p) == CHOOSE ki \in {<<k, i>> : k \in 1..Len(Leaves), i \in 1..(MaxList + 1)} :
                    /\ ki[2] <= Len(PlaceholdersOf(Leaves[ki[1]]))
                    /\ PlaceholdersOf(Leaves[ki[1]])[ki[2]] = p
    IN [p \in UNION {NamesOf(Leaves[k]) : k \in 1..Len(Leaves)} |->
            GivenValue(Leaves[at(p)[1]], at(p)[2])]

\* C12: with every placeholder bound, a row satisfies the statement of
\* op.and(f1..fn) exactly when it satisfies the statement of every fi, and the
\* statement of op.or(f1..fn) exactly when it satisfies that of at least one
\* fi, also when some fi is itself the result of op.and or op.or.
C12_OperandMeaning ==
    (pred # <<>> /\ pred[1].top # "none" /\ NoCollision) =>
        \A x \in RowValues :
            LET row == [a |-> x]
                kids == pred[1].kids
                sat(i) == Where(row, kids[i].stmt, FullBindings)
            IN Where(row, pred[1].f.stmt, FullBindings) <=>
                    (IF pred[1].top = "and" THEN \A i \in 1..Len(kids) : sat(i)
                     ELSE \E i \in 1..Len(kids) : sat(i))

\* The columns of a stored row that a SELECT * returns.
Visible(r) == Restrict(r, DOMAIN r \ {"rowid"})
\* d is a row that the invocation stored, with every field of the input
\* record v as given.
IsStoredRowOf(d, v, c) ==
    /\ d # null
    /\ \E r \in c.after \ c.before : Visible(r) = d[2]
    /\ \A e \in 1..Len(v[2]) : d[2][v[2][e][1]] = v[2][e][2]
\* The i-th record returned by a settled insert.
Returned(c, i) == IF isArray(c.input) THEN c.data[2][i] ELSE c.data
InsertsDone == {j \in 1..Len(done) : done[j].op = "insert"}

\* C13: on a table with an auto-increment integer primary key, every record
\* that a successful insert returns has its primary key set and every
\* supplied field equal to the input value, and the table after the insert
\* contains that record.
C13_InsertRoundTrip ==
    rowidAlias(tableInfo) =>
        \A j \in InsertsDone : done[j].status = "success" =>
            \A i \in 1..Len(done[j].values) :
                LET d == Returned(done[j], i)
                    v == done[j].values[i]
                IN /\ d # null
                   /\ d[2]["id"] # NULL
                   /\ \A e \in 1..Len(v[2]) : d[2][v[2][e][1]] = v[2][e][2]
                   /\ \E r \in done[j].after : Visible(r) = d[2]

\* A record without key was inserted into a table of two rows and came back
\* with the key 3.
C13_Witness ==
    /\ rowidAlias(tableInfo)
    /\ \E j \in InsertsDone :
          /\ done[j].status = "success"
          /\ done[j].input = Obj(<<<<"a", 2>>>>)
          /\ Cardinality(done[j].before) = 2
          /\ done[j].data = Obj([id |-> 3, a |-> 2])
          /\ mstate.data = done[j].data

\* C14: a successful insert given a single record stores a single record as
\* data; given a list of n >= 1 records it stores a list of n records whose
\* i-th element is the stored row of the i-th input record; on every table.
C14_InsertShape ==
    \A j \in InsertsDone : done[j].status = "success" =>
        LET c == done[j] IN
        IF isArray(c.input)
        THEN /\ isArray(c.data)
             /\ Len(c.data[2]) = Len(c.input[2])
             /\ \A i \in 1..Len(c.input[2]) : IsStoredRowOf(c.data[2][i], c.input[2][i], c)
        ELSE /\ ~isArray(c.data)
             /\ IsStoredRowOf(c.data, c.input, c)

\* C15: insert called with an empty list makes no engine call, leaves the
\* table unchanged, starts no engine work and settles at once with status
\* error, a non-null error message and data null.
C15_EmptyInsert ==
    [][(Len(done') = Len(done) + 1 /\ done'[Len(done')].op = "insert"
            /\ done'[Len(done')].input = Arr(<<>>)) =>
            /\ engineCalls' = engineCalls
            /\ rows' = rows
            /\ mcalls' = mcalls
            /\ done'[Len(done')].calls = 0
            /\ mstate'.status = "error"
            /\ mstate'.error # "null"
            /\ mstate'.data = null
            /\ ~mstate'.mutating]_vars

\* An insert of the empty list has settled in error on a table with rows.
C15_Witness ==
    /\ rows # {}
    /\ \E j \in InsertsDone :
          /\ done[j].input = Arr(<<>>)
          /\ done[j].status = "error"
          /\ done[j].after = done[j].before
    /\ mstate.status = "error"
    /\ mstate.error = requiresValuesMessage

\* The table after the records before the first failing one have been
\* inserted, one by one.
RECURSIVE StoredBefore(_, _, _)
StoredBefore(tbl, info, values) ==
    IF values = <<>> THEN tbl
    ELSE LET r == runInsert(tbl, info, values[1][2])
         IN IF r.ok THEN StoredBefore(r.rows, info, Tail(values)) ELSE tbl
\* The insert of some record of the batch fails.
SomeInsertFails(c) ==
    Cardinality(StoredBefore(c.before, tableInfo, c.values))
        < Cardinality(c.before) + Len(c.values)

\* C16 as stated: when the insert of record k of a batch fails, the call
\* reports status error and the records 1..k-1 stay in the table.
C16_PartialSuccess ==
    \A j \in InsertsDone : SomeInsertFails(done[j]) =>
        /\ done[j].status = "error"
        /\ done[j].after = StoredBefore(done[j].before, tableInfo, done[j].values)

\* C16 amended: a batch insert runs one exclusive transaction for the whole
\* batch: when the insert of record k fails, the call reports status error
\* and no record of the batch is in the table (records 1..k-1 are rolled
\* back).
C16_AllOrNothing ==
    \A j \in InsertsDone : SomeInsertFails(done[j]) =>
        /\ done[j].status = "error"
        /\ done[j].data = null
        /\ done[j].after = done[j].before

\* The second record of a batch of two failed after the first was inserted.
C16_Witness ==
    \E j \in InsertsDone :
        /\ Len(done[j].values) = 2
        /\ SomeInsertFails(done[j])
        /\ StoredBefore(done[j].before, tableInfo, done[j].values) # done[j].before
        /\ done[j].status = "error"
        /\ rows = done[j].before

\* The settled invocations of an operation.
DoneOf(op) == {j \in 1..Len(done) : done[j].op = op}
\* Every placeholder of the predicate has a binding in the parameters that
\* update and delete by predicate hand over (a predicate without: C8's case).
AllBound(f) ==
    \A i \in 1..Len(f.stmt) : f.stmt[i].kind = "cmp" =>
        \A k \in 1..Len(f.stmt[i].params) : f.stmt[i].params[k] \in DOMAIN filterValues(f)
\* The rows, as they are after the update, that the UPDATE of a settled
\* update by predicate matched.
Modified(c) ==
    LET params == merge(filterValues(c.input), updateValues(c.values).values)
    IN c.after \ {r \in c.before : ~Where(r, c.input.stmt, params)}

\* C17: a successful update by predicate returns exactly the rows that its
\* UPDATE modified, with their new values, also when the update assigns a
\* column that the predicate tests (stated for the predicates whose
\* placeholders are all bound).
C17_UpdateReturnsModified ==
    \A j \in DoneOf("update") : (done[j].status = "success" /\ AllBound(done[j].input)) =>
        LET d == done[j].data[2]
        IN /\ Len(d) = Cardinality(Modified(done[j]))
           /\ {d[i][2] : i \in 1..Len(d)} = {Visible(r) : r \in Modified(done[j])}

\* C18: update by primary key applied twice to the same key with identical
\* values, with no other write in between, settles the same way and returns
\* the same row both times, and the table after the second call is the table
\* after the first.
C18_UpdateByPKIdempotent ==
    \A j \in DoneOf("updateByPK") : \A k \in DoneOf("updateByPK") :
        (k = j + 1 /\ done[k].input = done[j].input /\ done[k].values = done[j].values
            /\ done[k].before = done[j].after) =>
            /\ done[k].status = done[j].status
            /\ done[k].data = done[j].data
            /\ done[k].after = done[j].after

\* The same update by primary key has settled twice; the first call changed
\* the row and both returned it.
C18_Witness ==
    /\ Len(done) = 2
    /\ done[1].op = "updateByPK"
    /\ done[1].input = done[2].input
    /\ done[1].values = done[2].values
    /\ done[1].after # done[1].before
    /\ done[2].before = done[1].after
    /\ done[1].data # null
    /\ done[2].data = done[1].data
    /\ mstate.data = done[2].data

\* The table after the updates of the first i keys of the list have been
\* committed, one after another.
RECURSIVE AfterKeys(_, _, _, _)
AfterKeys(tbl, pks, entries, i) ==
    IF i = 0 THEN tbl
    ELSE updateByKey(AfterKeys(tbl, pks, entries, i - 1), tableInfo,
                     getPKColumnName(tableInfo)[1], pks[i], entries).rows

\* C19: a successful update by primary keys pks returns a list of length
\* |pks| whose i-th element is the row with key pks[i] as it stands after
\* that key's update has been committed, which is the row that the single-key
\* update of pks[i] returns.
C19_UpdateByPKsRows ==
    \A j \in DoneOf("updateByPKs") : done[j].status = "success" =>
        LET c == done[j]
        IN /\ Len(c.data[2]) = Len(c.input)
           /\ \A i \in 1..Len(c.input) :
                 c.data[2][i] = getFirstAsync(AfterKeys(c.before, c.input, c.values, i),
                                              getPKColumnName(tableInfo)[1], c.input[i])

\* C20: after a successful delete by predicate no row of the table satisfies
\* the predicate, a select with the same predicate returns the empty list,
\* and every row that did not satisfy the predicate is still in the table,
\* unchanged.
C20_DeleteByPredicate ==
    \A j \in DoneOf("delete") : done[j].status = "success" =>
        LET c == done[j]
        IN /\ \A r \in c.after : r.a \notin c.input.sem
           /\ selectAll(c.after, c.input.stmt, flatValues(c.input)) = Arr(<<>>)
           /\ {r \in c.before : r.a \notin c.input.sem} \subseteq c.after

\* C10: any two filter results have disjoint parameter names, for every
\* outcome of the random suffix.
C10_DisjointNames ==
    \A i, j \in 1..Len(Leaves) :
        i # j => \A p \in NamesOf(Leaves[i]) : p \notin NamesOf(Leaves[j])

(* --------------------------- useCreateTables --------------------------- *)
KeyColumns(info) == {i \in 1..Len(info) : info[i].pk > 0}

\* C21: getPKColumnName fails when the table has no primary-key column, when
\* more than one column is marked primary key and when the table does not
\* exist; otherwise it returns the name of the single primary-key column.
C21_PKColumnName ==
    lookup # <<>> =>
        LET info == lookup[1].info
        IN IF Cardinality(KeyColumns(info)) = 1
           THEN lookup[1].result = <<quote(info[CHOOSE i \in KeyColumns(info) : TRUE].name)>>
           ELSE lookup[1].result = <<>>

TwoKeys(d) == Cardinality({i \in 1..Len(d.fields) : d.fields[i].primaryKey}) >= 2
SomeTwoKeys == \E i \in 1..Len(declared) : TwoKeys(declared[i])

\* C22: when a table passed to useCreateTables declares two or more
\* primary-key fields, the attempt settles with status error and no DDL
\* statement has been executed for any table of the call.
C22_TwoKeysNoDDL ==
    SomeTwoKeys =>
        /\ attempt = <<>>
        /\ \A j \in 1..Len(attempts) :
              /\ attempts[j].status = "error"
              /\ attempts[j].executed = 0
              /\ attempts[j].after = attempts[j].before
        /\ attempts # <<>> => cstate.status = "error" /\ db = attempts[1].before

\* A call has settled whose second table declares two keys, while its first
\* table is well formed and not yet in the database.
C22_Witness ==
    /\ Len(declared) = 2
    /\ TwoKeys(declared[2])
    /\ buildStmts(<<declared[1]>>, 1, <<>>).error = "null"
    /\ attempts # <<>>
    /\ db[declared[1].name] = <<>>

Count(s, x) == Cardinality({i \in 1..Len(s) : s[i] = x})

\* C25: each table-creation attempt calls onSettled exactly once and onFinish
\* exactly once whether it succeeds or fails, onSuccess only when it
\* succeeds and onError only when it fails.
C25_CreateCallbacks ==
    \A j \in 1..Len(attempts) :
        LET a == attempts[j]
        IN /\ Count(a.callbacks, "onSettled") = 1
           /\ Count(a.callbacks, "onFinish") = 1
           /\ Count(a.callbacks, "onSuccess") > 0 => a.status = "success"
           /\ Count(a.callbacks, "onError") > 0 => a.status = "error"

(* ---------------------------- querying flag ---------------------------- *)
\* C24: from the moment a query starts until it settles the hook's querying
\* flag is true, and it is false once the query has settled.
C24_QueryingFlag == state.querying <=> calls # <<>>

(* ---------------------------- error handling --------------------------- *)
\* The engine work of a settled invocation failed: a statement of its
\* transaction was refused, or the primary key could not be resolved.
EngineFailed(c) ==
    LET pk == getPKColumnName(tableInfo)
    IN CASE c.op = "insert" ->
              c.values # <<>> /\ ~insertTransaction(c.before, tableInfo, c.values).ok
         [] c.op = "update" -> ~updateByFilter(c.before, tableInfo, c.input, c.values).ok
         [] c.op = "delete" -> FALSE
         [] c.op = "updateByPK" ->
              IF pk = <<>> THEN TRUE
              ELSE ~updateByKey(c.before, tableInfo, pk[1], c.input[1], c.values).ok
         [] c.op = "deleteByPK" -> pk = <<>>
         [] OTHER -> \/ c.input # <<>> /\ pk = <<>>
                     \/ c.txs # <<>> /\ ~c.txs[Len(c.txs)].ok

FailureMessages == {uniqueMessage, noTableMessage}

Once(c, name) == Count(c.events, name) = 1
Never(c, name) == Count(c.events, name) = 0

\* C26: each invocation of mutate calls onStart once before any engine
\* call; on success it then calls onFinish, onData, onSettled and onSuccess
\* once each and never onError; on failure it calls onError and onSettled
\* once each and never onSuccess or onData.
C26_MutationCallbacks ==
    \A j \in 1..Len(done) :
        LET c == done[j]
        IN /\ c.events[1] = "onStart"
           /\ Once(c, "onStart")
           /\ c.status = "success" =>
                /\ Once(c, "onFinish") /\ Once(c, "onData")
                /\ Once(c, "onSettled") /\ Once(c, "onSuccess")
                /\ Never(c, "onError")
           /\ c.status = "error" =>
                /\ Once(c, "onError") /\ Once(c, "onSettled")
                /\ Never(c, "onSuccess") /\ Never(c, "onData")

C28_StatusExhausted ==
    (Fetched /\ Conjunctive /\ state.status \in {"success", "exhausted"}
        /\ state.data.items > 0) =>
        /\ state.status = IF state.data.hasNextPage THEN "success" ELSE "exhausted"
        /\ state.status = "exhausted" <=>
              ~\E r \in rows : Matches(r) /\ r[PkColumn] > shown.keys[Len(shown.keys)]

\* C29: the option compiler emits LIMIT $limit whenever a limit is supplied
\* and OFFSET $offset whenever an offset is supplied, 0 included, and omits a
\* clause only when its option is absent; a select given limit n returns at
\* most n rows.  The select runs over the rows of SampleRows.
SampleRows == {[id |-> k, a |-> k] : k \in 1..3}

C29_OptionClauses ==
    (handed # <<>> /\ handed[1].by = "useQuery" /\ handed[1].options # <<>>) =>
        LET o == handed[1].options[1]
        IN /\ handed[1].sql.limit = "$limit" <=> o.limit # undefined
           /\ handed[1].sql.offset = "$offset" <=> o.offset # undefined
           /\ o.limit # undefined =>
                 Len(useQuerySelect(SampleRows, pred[1].f, handed[1].options).data)
                    <= o.limit

\* C30: update or delete by primary keys runs one transaction per key in the
\* order of the key list, the next one only after the one before it has
\* committed; when the transaction of a key fails, what the keys before it
\* committed stays, no transaction is started for the keys after it, and the
\* hook reports status error with data null.
ByKeys == {i \in 1..Len(done) : done[i].op \in {"updateByPKs", "deleteByPKs"}}

C30_SequentialKeys ==
    \A i \in ByKeys :
        LET c == done[i]
            n == Len(c.txs)
        IN /\ n <= Len(c.input)
           /\ \A j \in 1..n : c.txs[j].key = c.input[j]
           /\ \A j \in 1..(n - 1) : c.txs[j].ok
           /\ (n > 0 /\ ~c.txs[n].ok) =>
                 /\ c.status = "error"
                 /\ c.data = null
                 /\ c.txs[n].after = c.txs[n].before
                 /\ c.after = c.txs[n].before
           /\ (n < Len(c.input) /\ \A j \in 1..n : c.txs[j].ok) =>
                 c.status = "error" /\ c.error = noTableMessage

\* The second key of an update clashes after the first key has changed its row.
C30_Witness ==
    \E i \in ByKeys :
        /\ Len(done[i].txs) = 2
        /\ Len(done[i].input) = 2
        /\ done[i].txs[1].ok
        /\ done[i].txs[1].after # done[i].txs[1].before
        /\ ~done[i].txs[2].ok
        /\ rows = done[i].txs[1].after

(* ----------------------- throwing success callbacks -------------------- *)
\* C38: a mutation hook reports status error only when its database
\* operation failed: an invocation whose operation committed settles in
\* success and calls onSettled exactly once, also when one of the callbacks
\* of the success path throws.
C38_CommittedIsSuccess ==
    \A j \in 1..Len(done) :
        /\ done[j].status = "error" => ~done[j].committed
        /\ done[j].committed => done[j].status = "success" /\ Once(done[j], "onSettled")

(* ------------------- update by key naming the key column --------------- *)
\* The table that update by primary key k with the values V is to leave: the
\* row with key k has every column named in V set, the other rows are as
\* they were (columns id and a; the rowid is left out of the comparison).
NamedIn(entries, col) == {i \in 1..Len(entries) : entries[i][1] = col}
Wanted(tbl, k, entries) ==
    LET val(r, col) == IF NamedIn(entries, col) = {} THEN r[col]
                       ELSE entries[Max(NamedIn(entries, col))][2]
    IN {IF r.id = k THEN [id |-> val(r, "id"), a |-> val(r, "a")]
        ELSE [id |-> r.id, a |-> r.a] : r \in tbl}

\* C37: update by primary key k with values V changes only the row whose
\* primary key is k and sets every column named in V to its value in V, also
\* when V names the primary key column itself (stated for the updates that
\* committed and whose new key no other row holds).
C37_UpdateByPKSets ==
    \A j \in DoneOf("updateByPK") :
        LET c == done[j]
            w == Wanted(c.before, c.input[1], c.values)
        IN (c.committed /\ Cardinality(w) = Cardinality(c.before)) =>
              {[id |-> r.id, a |-> r.a] : r \in c.after} = w

(* ------------------------- mutation state flags ------------------------ *)
\* C34: in every reachable state of a mutation hook, success is true exactly
\* when status is success and error is non-null exactly when status is
\* error, also while a later invocation is in flight after an earlier one
\* has settled.
C34_FlagsFollowStatus ==
    /\ mstate.success <=> mstate.status = "success"
    /\ mstate.error # "null" <=> mstate.status = "error"

(* ------------------------ overlapping invocations ---------------------- *)
\* C35: while at least one invocation of a mutation hook's mutate function
\* has started and not yet settled, mutating is true and status is mutating,
\* also when two invocations of the same hook overlap and one settles before
\* the other.
C35_MutatingWhileInFlight ==
    mcalls # <<>> => mstate.mutating /\ mstate.status = "mutating"

(* ------------------------- top-level page fields ----------------------- *)
\* C33: after every settled fetch, the hasNextPage, isFirstPage and
\* isLastPage that the paginated hook returns at its top level equal the
\* fields of the same name inside data.
C33_TopLevelFields ==
    (calls = <<>> /\ shown.op # "none") =>
        /\ state.hasNextPage = state.data.hasNextPage
        /\ state.isFirstPage = state.data.isFirstPage
        /\ state.isLastPage = state.data.isLastPage

(* --------------------------- overlapping fetches ----------------------- *)
\* C36: when fetchNextPage and refetchPage are called while earlier fetches
\* of the same hook are still in flight, then once all of them have settled
\* the displayed data is the result of the fetch whose cursor equals the
\* recorded previous cursor (stated for a hook without an initial cursor).
C36_DisplayedIsPreviousCursor ==
    (calls = <<>> /\ shown.op # "none" /\ options.cursor = undefined) =>
        shown.cursor = previousCursor

(* ------------------------ paging under an order ------------------------ *)
\* The keys of the pages obtained so far, one after another.
RECURSIVE Flat(_)
Flat(pages) == IF pages = <<>> THEN <<>> ELSE Head(pages) \o Flat(Tail(pages))

\* C31: with no write between fetches, the pages obtained by the first fetch
\* and by repeated fetchNextPage until hasNextPage is false contain every row
\* matching the predicate exactly once, for each order option the caller may
\* give (stated for the predicates without OR).
C31_EveryRowOnce ==
    (calls = <<>> /\ shown.op # "none" /\ ~state.data.hasNextPage /\ Conjunctive) =>
        /\ \A r \in rows : Matches(r) => Count(Flat(fetched), r.id) = 1
        /\ \A i \in 1..Len(Flat(fetched)) :
              \E r \in rows : Matches(r) /\ r.id = Flat(fetched)[i]

(* ------------------------------ termination ---------------------------- *)
\* C32: on a finite table with no write between fetches, repeated
\* fetchNextPage reaches a page with hasNextPage false (status exhausted)
\* after finitely many fetches, for every predicate and every order option:
\* every fetch after the first one passes a cursor beyond the cursor of the
\* fetch before it, so that the fetches are at most as many as the table has
\* rows (one on an empty table), and a settled fetch without a next page has
\* status exhausted.
C32_FinitelyManyFetches ==
    /\ Len(fetched) <= Max({1, Cardinality(rows)})
    /\ (calls = <<>> /\ shown.op = "fetchNextPage") =>
            shown.before.cursor = undefined \/ shown.cursor > shown.before.cursor
    /\ (calls = <<>> /\ shown.op # "none" /\ ~state.data.hasNextPage) =>
            state.status = "exhausted"

(* --------------------------- DDL in one transaction -------------------- *)
\* C39: all DDL statements of one useCreateTables call run in a single
\* exclusive transaction, each table's DROP (when skipIfExist is false)
\* preceding its CREATE: when any statement fails, no table of the call has
\* been created and no table that was dropped for re-creation is lost, and
\* the hook settles in status error with sql empty and tables null.
C39_AllOrNothingDDL ==
    /\ \A k \in 1..Len(attempts) :
          LET a == attempts[k]
          IN /\ \A i \in 1..Len(a.stmts) :
                   /\ a.stmts[i].kind = "drop" =>
                         /\ i < Len(a.stmts)
                         /\ a.stmts[i + 1].kind = "create"
                         /\ a.stmts[i + 1].table = a.stmts[i].table
                   /\ (a.stmts[i].kind = "create" /\ ~a.stmts[i].ifNotExists) =>
                         /\ i > 1
                         /\ a.stmts[i - 1].kind = "drop"
                         /\ a.stmts[i - 1].table = a.stmts[i].table
             /\ a.status = "error" => a.after = a.before
             /\ a.status = "success" => a.executed = Len(a.stmts)
    /\ cstate.status = "error" => cstate.sql = <<>> /\ cstate.tables = <<"null">>
    /\ (attempt = <<>> /\ attempts # <<>>) =>
          cstate.status = attempts[Len(attempts)].status

\* A call dropped an existing table, and a later statement of it failed: the
\* table is there as before and the hook shows the error.
C39_Witness ==
    /\ attempt = <<>>
    /\ attempts # <<>>
    /\ LET a == attempts[Len(attempts)]
       IN /\ a.status = "error"
          /\ a.executed >= 2
          /\ a.stmts[1].kind = "drop"
          /\ a.before[a.stmts[1].table] # <<>>
          /\ db = a.before
    /\ cstate.status = "error"
    /\ cstate.sql = <<>>

====
